---- MODULE Spec2Model ----
(***************************************************************************)
(* A model of sops (src/sops/__init__.py): the tree crypto engine          *)
(* (encrypt, decrypt and the four tree walkers), and the command-line      *)
(* dispatcher with its interactive edit workflow.                          *)
(*                                                                         *)
(* Python strings and byte strings are sequences of one-character strings. *)
(* AES-GCM and the hash functions are ideal: a token opens only under the  *)
(* key and the additional data it was sealed with, and two digests are     *)
(* equal only if the hashed bytes are equal.                               *)
(***************************************************************************)
EXTENDS Integers, Sequences, FiniteSets, TLC

VARIABLES
    pc,                 \* position of the process
    tree,               \* the document tree in memory
    key,                \* the data encryption key in use
    INPUT_VERSION,      \* global: format version of the input document
    UNENCRYPTED_SUFFIX, \* global: key suffix marking clear subtrees
    ivctr,              \* number of random IVs drawn so far
    orig,               \* the clear tree handed to the encrypt pass
    stored,             \* the document as the encrypt pass left it
    tamper,             \* what was changed in the stored document since
    res,                \* outcome of the decrypt pass
    ignoreMac,          \* --ignore-mac
    args,               \* the command line
    env,                \* what the environment answers (editor, key services)
    need_key,           \* a new data key must be generated
    existing_file,      \* the target path existed at start
    edits,              \* number of editor runs so far
    target,             \* content of the target path
    tmpfile,            \* content of the edit temp file
    stdout,             \* what was written to standard output
    stash,              \* the edit session's stash
    tmphash,            \* hash of the temp file before editing
    exitcode,           \* exit code of the process, -1 while it runs
    call,               \* a library function called on its own: its inputs
    ret                 \* what that call returned

vars == <<pc, tree, key, INPUT_VERSION, UNENCRYPTED_SUFFIX, ivctr, orig,
          stored, tamper, res, ignoreMac, args, env, need_key, existing_file,
          edits, target, tmpfile, stdout, stash, tmphash, exitcode, call,
          ret>>

----------------------------------------------------------------------------
(* Constants of the program *)

\* VERSION = '1.13', as split on '.' and parsed by A_is_newer_than_B
VERSION == <<1, 13>>

DEFAULT_UNENCRYPTED_SUFFIX ==
    <<"_", "u", "n", "e", "n", "c", "r", "y", "p", "t", "e", "d">>

\* NOW = datetime.utcnow().strftime(...): one timestamp per process
NOW == <<"t", "1">>

----------------------------------------------------------------------------
(* Version comparator *)

RECURSIVE newer_loop(_, _, _, _, _)
newer_loop(A, B, i, lim, is_equal) ==
    IF i > lim
    THEN is_equal /\ Len(A) > Len(B)
    ELSE IF A[i] > B[i]
         THEN TRUE
         ELSE newer_loop(A, B, i + 1, lim, is_equal /\ A[i] = B[i])

A_is_newer_than_B(A, B) ==
    LET lim == IF Len(B) < Len(A) THEN Len(B) ELSE Len(A)
    IN  newer_loop(A, B, 1, lim, TRUE)

----------------------------------------------------------------------------
(* Scalar values.  Every value is a record of the same shape:              *)
(*   kind  "str" | "int" | "float" | "bool" | "bytes" | "none"             *)
(*   i     the number of an int, the tenths of a float, 1/0 of a bool      *)
(*   s     the characters of a str, the bytes of a bytes                   *)
(*   tok   the Encrypted Value Token a str spells, if it spells one        *)

NoTok == [present |-> FALSE, k |-> "", iv |-> 0, aad |-> <<>>, pt |-> <<>>,
          type |-> "", fmt |-> ""]

StrV(s)   == [kind |-> "str",   i |-> 0, s |-> s,    tok |-> NoTok]
TokV(t)   == [kind |-> "str",   i |-> 0, s |-> <<>>, tok |-> t]
IntV(n)   == [kind |-> "int",   i |-> n, s |-> <<>>, tok |-> NoTok]
FloatV(f) == [kind |-> "float", i |-> f, s |-> <<>>, tok |-> NoTok]
BoolV(b)  == [kind |-> "bool",  i |-> IF b THEN 1 ELSE 0, s |-> <<>>,
              tok |-> NoTok]
BytesV(s) == [kind |-> "bytes", i |-> 0, s |-> s,    tok |-> NoTok]
NoneV     == [kind |-> "none",  i |-> 0, s |-> <<>>, tok |-> NoTok]

IsToken(v) == v.kind = "str" /\ v.tok.present

\* Python truthiness: `not value`
Falsy(v) ==
    CASE v.kind = "str"   -> v.s = <<>> /\ ~v.tok.present
      [] v.kind = "bytes" -> v.s = <<>>
      [] v.kind = "none"  -> TRUE
      [] OTHER            -> v.i = 0

Digit(d) == <<"0", "1", "2", "3", "4", "5", "6", "7", "8", "9">>[d + 1]

RECURSIVE IntToStr(_)
IntToStr(n) ==
    IF n < 0 THEN <<"-">> \o IntToStr(-n)
    ELSE IF n < 10 THEN <<Digit(n)>>
    ELSE IntToStr(n \div 10) \o <<Digit(n % 10)>>

\* str(float) of a float with one decimal: '1.5', '0.0'
FloatToStr(f) == IntToStr(f \div 10) \o <<".">> \o <<Digit(f % 10)>>

IsDigit(c) == c \in {"0", "1", "2", "3", "4", "5", "6", "7", "8", "9"}
DigitVal(c) == CHOOSE d \in 0..9 : Digit(d) = c

RECURSIVE DigitsVal(_)
DigitsVal(s) ==
    IF s = <<>> THEN 0
    ELSE 10 * DigitsVal(SubSeq(s, 1, Len(s) - 1)) + DigitVal(s[Len(s)])

AllDigits(s) == s # <<>> /\ \A j \in 1..Len(s) : IsDigit(s[j])

\* int(text): [ok, n]; not ok is Python's ValueError
ParseInt(s) ==
    IF s # <<>> /\ s[1] = "-" /\ AllDigits(Tail(s))
    THEN [ok |-> TRUE, n |-> 0 - DigitsVal(Tail(s))]
    ELSE IF AllDigits(s) THEN [ok |-> TRUE, n |-> DigitsVal(s)]
    ELSE [ok |-> FALSE, n |-> 0]

\* float(text), in tenths: digits, optionally followed by '.' and one digit
ParseFloat(s) ==
    IF AllDigits(s) THEN [ok |-> TRUE, n |-> 10 * DigitsVal(s)]
    ELSE IF Len(s) >= 3 /\ s[Len(s) - 1] = "." /\ IsDigit(s[Len(s)])
            /\ AllDigits(SubSeq(s, 1, Len(s) - 2))
         THEN [ok |-> TRUE,
               n |-> 10 * DigitsVal(SubSeq(s, 1, Len(s) - 2))
                     + DigitVal(s[Len(s)])]
         ELSE [ok |-> FALSE, n |-> 0]

\* bytes.lower() on the letters the model uses
LowerChar(c) == CASE c = "T" -> "t" [] c = "F" -> "f" [] OTHER -> c
Lower(s) == [j \in 1..Len(s) |-> LowerChar(s[j])]

\* "xFF" is a byte that is not valid UTF-8
ValidUtf8(s) == \A j \in 1..Len(s) : s[j] # "xFF"

\* the text of a token: one symbol per token, different for different tokens
TokText(t) == <<ToString(t)>>

to_bytes(value) ==
    CASE value.kind = "bytes" -> value.s
      [] value.kind = "str"   -> IF value.tok.present THEN TokText(value.tok)
                                 ELSE value.s
      [] value.kind = "int"   -> IntToStr(value.i)
      [] value.kind = "float" -> FloatToStr(value.i)
      [] value.kind = "bool"  -> IF value.i = 1 THEN <<"T", "r", "u", "e">>
                                 ELSE <<"F", "a", "l", "s", "e">>
      [] OTHER                -> <<"N", "o", "n", "e">>

----------------------------------------------------------------------------
(* Hashing and AEAD *)

\* the running digest: [on, data]; `on` is FALSE where the code passes None
NoDigest  == [on |-> FALSE, data |-> <<>>]
NewDigest == [on |-> TRUE, data |-> <<>>]

DigestUpdate(st, b) ==
    IF st.digest.on THEN [st EXCEPT !.digest.data = @ \o b] ELSE st

\* digest.hexdigest().upper(): 128 hex characters, a function of the bytes
HexDigest(data) == <<"SHA512:">> \o data

\* AES-256-GCM encryption of pt under k, iv and aad, as a typed token
Seal(k, iv, aad, pt, valtype) ==
    [present |-> TRUE, k |-> k, iv |-> iv, aad |-> aad, pt |-> pt,
     type |-> valtype, fmt |-> "typed"]

\* decryptor.finalize() accepts the tag
Opens(t, k, aad) == t.k = k /\ t.aad = aad

----------------------------------------------------------------------------
(* Document trees.  Every node is a record of the same shape:              *)
(*   t      "leaf" | "list" | "map"                                        *)
(*   val    the scalar of a leaf                                           *)
(*   keys   the keys of a map, in order                                    *)
(*   items  the children of a list or a map, in order                      *)
(* A document is [data, sops]: the root mapping without its `sops` key,    *)
(* and the `sops` branch.                                                  *)

Leaf(v)     == [t |-> "leaf", val |-> v, keys |-> <<>>, items |-> <<>>]
List(items) == [t |-> "list", val |-> NoneV, keys |-> <<>>, items |-> items]
Map(keys, items) ==
    [t |-> "map", val |-> NoneV, keys |-> keys, items |-> items]

\* k.endswith(suffix)
EndsWith(k, suffix) ==
    /\ Len(k) >= Len(suffix)
    /\ SubSeq(k, Len(k) - Len(suffix) + 1, Len(k)) = suffix

(* The stash: a dict per node.  [ne, hasct, iv, aad, cleartext, kids]:     *)
(* ne is the dict's truthiness, hasct says 'cleartext' is in it, kids are  *)
(* the entries under mapping keys and sequence indices.                    *)
NoStash  == [ne |-> FALSE, hasct |-> FALSE, iv |-> 0, aad |-> <<>>,
             cleartext |-> <<>>, kids |-> <<>>]
HasStash == [NoStash EXCEPT !.ne = TRUE]

KeyK(name) == [isidx |-> FALSE, name |-> name, idx |-> 0]
IdxK(i)    == [isidx |-> TRUE, name |-> <<>>, idx |-> i]

InStash(st, k) == \E j \in 1..Len(st.kids) : st.kids[j].k = k
StashAt(st, k) ==
    st.kids[CHOOSE j \in 1..Len(st.kids) : st.kids[j].k = k].s
StashPut(st, k, s) ==
    IF InStash(st, k)
    THEN [st EXCEPT !.kids =
            [j \in 1..Len(st.kids) |->
                IF st.kids[j].k = k THEN [k |-> k, s |-> s] ELSE st.kids[j]]]
    ELSE [st EXCEPT !.kids = Append(@, [k |-> k, s |-> s])]

\* how a call ends: exit 0 is a normal return, exc names an uncaught
\* exception (the interpreter then exits with code 1)
OK == [exit |-> 0, exc |-> ""]
Raise(name) == [exit |-> 1, exc |-> name]
Panic(code) == [exit |-> code, exc |-> ""]

----------------------------------------------------------------------------
(* encrypt(value, key, aad, stash, digest, unencrypted).                   *)
(* st is [digest, iv]: the running digest and the next fresh IV.           *)

ValType(value) ==
    CASE value.kind = "str"   -> "str"
      [] value.kind = "bool"  -> "bool"
      [] value.kind = "int"   -> "int"
      [] value.kind = "float" -> "float"
      [] OTHER                -> "bytes"

encrypt(value, k, aad, st_stash, st, unencrypted) ==
    IF Falsy(value) /\ value.kind # "bool"
    THEN [val |-> StrV(<<>>), st |-> st]
    ELSE IF unencrypted
    THEN [val |-> value, st |-> DigestUpdate(st, to_bytes(value))]
    ELSE LET bvalue == to_bytes(value)
             st1 == DigestUpdate(st, bvalue)
             reuse == st_stash.ne /\ st_stash.hasct
                      /\ st_stash.cleartext = bvalue
             iv == IF reuse THEN st_stash.iv ELSE st1.iv
         IN  [val |-> TokV(Seal(k, iv, aad, bvalue, ValType(value))),
              st |-> IF reuse THEN st1 ELSE [st1 EXCEPT !.iv = @ + 1]]

(* walk_and_encrypt below the root, and walk_list_and_encrypt.  Each       *)
(* returns [node, st].                                                     *)
RECURSIVE walk_and_encrypt(_, _, _, _, _, _, _)
RECURSIVE walk_list_and_encrypt(_, _, _, _, _, _, _)
RECURSIVE enc_map_loop(_, _, _, _, _, _, _, _)
RECURSIVE enc_list_loop(_, _, _, _, _, _, _, _, _)

\* the encrypted leaf as a node
enc_leaf(e) == [node |-> Leaf(e.val), st |-> e.st]

\* the path segment a mapping key adds to the AAD
key_aad_none(aad, k) == aad
key_aad(aad, k) == aad \o k \o <<":">>

\* one child of a mapping or of a sequence: a branch is walked, a leaf is
\* encrypted
enc_child(v, k, aad, nstash, st, unencrypted, suffix) ==
    IF v.t = "map"
    THEN walk_and_encrypt(v, k, aad, nstash, st, unencrypted, suffix)
    ELSE IF v.t = "list"
    THEN walk_list_and_encrypt(v, k, aad, nstash, st, unencrypted, suffix)
    ELSE enc_leaf(encrypt(v.val, k, aad, nstash, st, unencrypted))

\* the stash handed to the child under mapping key kk
enc_map_nstash(st_stash, kk) ==
    IF st_stash.ne /\ InStash(st_stash, KeyK(kk))
    THEN StashAt(st_stash, KeyK(kk)) ELSE NoStash

\* the stash handed to element i of a sequence: nstash is set before the
\* loop and kept when index i is not in the stash
enc_list_nstash(st_stash, i, nstash0) ==
    IF st_stash.ne /\ InStash(st_stash, IdxK(i - 1))
    THEN StashAt(st_stash, IdxK(i - 1)) ELSE nstash0

\* branch[k] = <result>, then the next key
enc_map_next(branch, i, k, aad, st_stash, unencrypted, suffix, r) ==
    enc_map_loop([branch EXCEPT !.items[i] = r.node], i + 1, k, aad,
                 st_stash, r.st, unencrypted, suffix)

enc_map_loop(branch, i, k, aad, st_stash, st, unencrypted, suffix) ==
    IF i > Len(branch.items) THEN [node |-> branch, st |-> st]
    ELSE enc_map_next(branch, i, k, aad, st_stash, unencrypted, suffix,
             enc_child(branch.items[i], k, key_aad(aad, branch.keys[i]),
                       enc_map_nstash(st_stash, branch.keys[i]), st,
                       unencrypted \/ EndsWith(branch.keys[i], suffix),
                       suffix))

walk_and_encrypt(branch, k, aad, st_stash, st, unencrypted, suffix) ==
    enc_map_loop(branch, 1, k, aad, st_stash, st, unencrypted, suffix)

enc_list_next(branch, i, k, aad, st_stash, nstash, unencrypted, suffix, r) ==
    enc_list_loop([branch EXCEPT !.items[i] = r.node], i + 1, k, aad,
                  st_stash, nstash, r.st, unencrypted, suffix)

enc_list_loop(branch, i, k, aad, st_stash, nstash0, st, unencrypted, suffix) ==
    IF i > Len(branch.items) THEN [node |-> branch, st |-> st]
    ELSE enc_list_next(branch, i, k, aad, st_stash,
             enc_list_nstash(st_stash, i, nstash0), unencrypted, suffix,
             enc_child(branch.items[i], k, aad,
                       enc_list_nstash(st_stash, i, nstash0), st,
                       unencrypted, suffix))

walk_list_and_encrypt(branch, k, aad, st_stash, st, unencrypted, suffix) ==
    enc_list_loop(branch, 1, k, aad, st_stash, NoStash, st, unencrypted,
                  suffix)

(* walk_and_encrypt at the root: the walk, then lastmodified and the mac.  *)
(* Returns [doc, iv].                                                      *)
walk_and_encrypt_root(doc, k, st_stash, iv, suffix) ==
    LET w == walk_and_encrypt(doc.data, k, <<>>, st_stash,
                              [digest |-> NewDigest, iv |-> iv], FALSE,
                              suffix)
        h == StrV(HexDigest(w.st.digest.data))
        m == encrypt(h, k, NOW, NoStash,
                     [digest |-> NoDigest, iv |-> w.st.iv], FALSE)
    IN  [doc |-> [data |-> w.node,
                  sops |-> [doc.sops EXCEPT !.haslm = TRUE,
                                            !.lastmodified = NOW,
                                            !.hasmac = TRUE,
                                            !.mac = m.val]],
         iv |-> m.st.iv]

----------------------------------------------------------------------------
(* decrypt(value, key, aad, stash, digest, unencrypted), under Python 3.   *)
(* Returns [val, st, stash, err].                                          *)

\* res is not None: the value matches the token pattern of the input
\* version (the `type` field is required from version 0.8 on)
Matches(value, ver) ==
    /\ IsToken(value)
    /\ A_is_newer_than_B(ver, <<0, 8>>) => value.tok.fmt = "typed"

\* the cleartext converted back to the recorded type: [val, err]
Convert(cleartext, valtype, ver) ==
    IF ~A_is_newer_than_B(ver, <<0, 8>>)
    THEN [val |-> NoneV, err |-> Panic(23)]  \* 'str' equals no bytes literal
    ELSE
    CASE valtype = "bytes" -> [val |-> BytesV(cleartext), err |-> OK]
      [] valtype = "str" ->
            IF ValidUtf8(cleartext)
            THEN [val |-> StrV(cleartext), err |-> OK]
            ELSE [val |-> BytesV(cleartext), err |-> OK]
      [] valtype = "int" ->
            IF ~ValidUtf8(cleartext)
            THEN [val |-> NoneV, err |-> Raise("UnicodeDecodeError")]
            ELSE IF ParseInt(cleartext).ok
            THEN [val |-> IntV(ParseInt(cleartext).n), err |-> OK]
            ELSE [val |-> NoneV, err |-> Raise("ValueError")]
      [] valtype = "float" ->
            IF ~ValidUtf8(cleartext)
            THEN [val |-> NoneV, err |-> Raise("UnicodeDecodeError")]
            ELSE IF ParseFloat(cleartext).ok
            THEN [val |-> FloatV(ParseFloat(cleartext).n), err |-> OK]
            ELSE [val |-> NoneV, err |-> Raise("ValueError")]
      [] valtype = "bool" ->
            [val |-> BoolV(Lower(cleartext) = <<"t", "r", "u", "e">>),
             err |-> OK]
      [] OTHER -> [val |-> NoneV, err |-> Raise("TypeError")]

decrypt(value, k, aad, st_stash, st, unencrypted, ver) ==
    IF unencrypted
    THEN [val |-> value, st |-> DigestUpdate(st, to_bytes(value)),
          stash |-> st_stash, err |-> OK]
    ELSE IF value.kind # "str"
    THEN [val |-> value, st |-> st, stash |-> st_stash,
          err |-> Raise("AttributeError")]
    ELSE IF ~Matches(value, ver)
    THEN [val |-> value, st |-> st, stash |-> st_stash, err |-> OK]
    ELSE IF ~Opens(value.tok, k, aad)
    THEN [val |-> value, st |-> st, stash |-> st_stash,
          err |-> Raise("InvalidTag")]
    ELSE LET cleartext == value.tok.pt
             c == Convert(cleartext, value.tok.type, ver)
         IN  [val |-> c.val,
              st |-> DigestUpdate(st, cleartext),
              stash |-> IF st_stash.ne
                        THEN [st_stash EXCEPT !.hasct = TRUE,
                                              !.iv = value.tok.iv,
                                              !.aad = aad,
                                              !.cleartext = cleartext]
                        ELSE st_stash,
              err |-> c.err]

(* walk_and_decrypt below the root, and walk_list_and_decrypt.  Each       *)
(* returns [node, st, stash, err]; a walk stops at the first error.        *)
RECURSIVE walk_and_decrypt(_, _, _, _, _, _, _, _)
RECURSIVE walk_list_and_decrypt(_, _, _, _, _, _, _, _)
RECURSIVE dec_map_loop(_, _, _, _, _, _, _, _, _, _)
RECURSIVE dec_list_loop(_, _, _, _, _, _, _, _, _)

\* the decrypted leaf as a node
dec_leaf(d) ==
    [node |-> Leaf(d.val), st |-> d.st, stash |-> d.stash, err |-> d.err]

\* one child of a mapping or of a sequence: a branch is walked, a leaf is
\* decrypted
dec_child(v, k, aad, nstash, st, unencrypted, ver, suffix) ==
    IF v.t = "map"
    THEN walk_and_decrypt(v, k, aad, nstash, st, unencrypted, ver, suffix)
    ELSE IF v.t = "list"
    THEN walk_list_and_decrypt(v, k, aad, nstash, st, unencrypted, ver,
                               suffix)
    ELSE dec_leaf(decrypt(v.val, k, aad, nstash, st, unencrypted, ver))

\* the AAD of the child under key kk: the path from 0.9 on, before that
\* the keys seen so far in the same mapping run together
dec_map_aad(aad, carryaad, kk, ver) ==
    IF A_is_newer_than_B(ver, <<0, 9>>) THEN key_aad(aad, kk)
    ELSE carryaad \o kk

dec_map_carry(carryaad, kk, ver) ==
    IF A_is_newer_than_B(ver, <<0, 9>>) THEN carryaad ELSE carryaad \o kk

\* the fresh stash entry of a child
dec_nstash(st_stash) == IF st_stash.ne THEN HasStash ELSE NoStash

dec_put(st_stash, at, r) ==
    IF st_stash.ne THEN StashPut(st_stash, at, r.stash) ELSE st_stash

\* branch[k] = <result>, then the next key; the first error ends the walk
dec_map_next(branch, i, k, aad, ncarry, st_stash, unencrypted, ver, suffix, r) ==
    IF r.err # OK
    THEN [node |-> branch, st |-> r.st,
          stash |-> dec_put(st_stash, KeyK(branch.keys[i]), r),
          err |-> r.err]
    ELSE dec_map_loop([branch EXCEPT !.items[i] = r.node], i + 1, k, aad,
                      ncarry, dec_put(st_stash, KeyK(branch.keys[i]), r),
                      r.st, unencrypted, ver, suffix)

dec_map_loop(branch, i, k, aad, carryaad, st_stash, st, unencrypted, ver, suffix) ==
    IF i > Len(branch.items)
    THEN [node |-> branch, st |-> st, stash |-> st_stash, err |-> OK]
    ELSE dec_map_next(branch, i, k, aad,
             dec_map_carry(carryaad, branch.keys[i], ver), st_stash,
             unencrypted, ver, suffix,
             dec_child(branch.items[i], k,
                       dec_map_aad(aad, carryaad, branch.keys[i], ver),
                       dec_nstash(st_stash), st,
                       unencrypted \/ EndsWith(branch.keys[i], suffix),
                       ver, suffix))

walk_and_decrypt(branch, k, aad, st_stash, st, unencrypted, ver, suffix) ==
    dec_map_loop(branch, 1, k, aad, aad, st_stash, st, unencrypted, ver,
                 suffix)

dec_list_next(branch, i, k, aad, st_stash, unencrypted, ver, suffix, r) ==
    IF r.err # OK
    THEN [node |-> branch, st |-> r.st,
          stash |-> dec_put(st_stash, IdxK(i - 1), r), err |-> r.err]
    ELSE dec_list_loop([branch EXCEPT !.items[i] = r.node], i + 1, k, aad,
                       dec_put(st_stash, IdxK(i - 1), r), r.st,
                       unencrypted, ver, suffix)

dec_list_loop(branch, i, k, aad, st_stash, st, unencrypted, ver, suffix) ==
    IF i > Len(branch.items)
    THEN [node |-> branch, st |-> st, stash |-> st_stash, err |-> OK]
    ELSE dec_list_next(branch, i, k, aad, st_stash, unencrypted, ver,
             suffix,
             dec_child(branch.items[i], k, aad, dec_nstash(st_stash), st,
                       unencrypted, ver, suffix))

walk_list_and_decrypt(branch, k, aad, st_stash, st, unencrypted, ver, suffix) ==
    dec_list_loop(branch, 1, k, aad, st_stash, st, unencrypted, ver, suffix)

(* The integrity check at the end of the root walk: the error it ends in.  *)
mac_check_skip_missing(sops, k, digest, ver) ==
    \* variant: a missing mac is let through
    IF ~sops.hasmac THEN OK
    ELSE IF ~sops.haslm THEN Raise("KeyError")
    ELSE LET h == StrV(HexDigest(digest.data))
             d == decrypt(sops.mac, k, sops.lastmodified, NoStash,
                          [digest |-> NoDigest, iv |-> 0], FALSE, ver)
         IN  IF d.err # OK THEN d.err
             ELSE IF h # d.val THEN Panic(51) ELSE OK

mac_check(sops, k, digest, ver) ==
    IF ~sops.hasmac THEN Panic(52)
    ELSE IF ~sops.haslm THEN Raise("KeyError")
    ELSE LET h == StrV(HexDigest(digest.data))
             d == decrypt(sops.mac, k, sops.lastmodified, NoStash,
                          [digest |-> NoDigest, iv |-> 0], FALSE, ver)
         IN  IF d.err # OK THEN d.err
             ELSE IF h # d.val THEN Panic(51) ELSE OK

(* walk_and_decrypt at the root.  Returns [doc, stash, err].               *)
walk_and_decrypt_root(doc, k, st_stash, ignore, ver, suffix) ==
    LET w == walk_and_decrypt(doc.data, k, <<>>, st_stash,
                              [digest |-> IF ignore THEN NoDigest
                                          ELSE NewDigest,
                               iv |-> 0],
                              FALSE, ver, suffix)
        e == IF w.err # OK THEN w.err
             ELSE IF ignore THEN OK
             ELSE mac_check(doc.sops, k, w.st.digest, ver)
    IN  [doc |-> [doc EXCEPT !.data = w.node], stash |-> w.stash, err |-> e]

----------------------------------------------------------------------------
(* Positions in a tree.  A path is the sequence of positions (in `items`)  *)
(* from the root mapping down to a node.                                   *)

RECURSIVE LeafPaths(_)
LeafPaths(node) ==
    IF node.t = "leaf" THEN {<<>>}
    ELSE UNION {{<<j>> \o q : q \in LeafPaths(node.items[j])}
                : j \in 1..Len(node.items)}

RECURSIVE NodeAt(_, _)
NodeAt(node, path) ==
    IF path = <<>> THEN node ELSE NodeAt(node.items[path[1]], Tail(path))

RECURSIVE SetAt(_, _, _)
SetAt(node, path, new) ==
    IF path = <<>> THEN new
    ELSE [node EXCEPT !.items[path[1]] =
                        SetAt(node.items[path[1]], Tail(path), new)]

\* the mapping keys met on the way down a path (sequence indices add none)
RECURSIVE KeysOn(_, _)
KeysOn(node, path) ==
    IF path = <<>> THEN <<>>
    ELSE (IF node.t = "map" THEN <<node.keys[path[1]]>> ELSE <<>>)
         \o KeysOn(node.items[path[1]], Tail(path))

\* some key on the way down ends with the suffix
UnderSuffix(node, path, suffix) ==
    \E j \in 1..Len(KeysOn(node, path)) :
        EndsWith(KeysOn(node, path)[j], suffix)

\* each mapping key on the way down, followed by a colon
RECURSIVE ColonJoin(_)
ColonJoin(ks) ==
    IF ks = <<>> THEN <<>> ELSE ks[1] \o <<":">> \o ColonJoin(Tail(ks))

\* positions of the nodes that hold children
RECURSIVE InnerPaths(_)
InnerPaths(node) ==
    IF node.t = "leaf" THEN {}
    ELSE {<<>>} \cup UNION {{<<j>> \o q : q \in InnerPaths(node.items[j])}
                            : j \in 1..Len(node.items)}

RemoveIdx(seq, j) == SubSeq(seq, 1, j - 1) \o SubSeq(seq, j + 1, Len(seq))

\* the node without its j-th child
DropChild(node, j) ==
    [node EXCEPT !.items = RemoveIdx(@, j),
                 !.keys = IF node.t = "map" THEN RemoveIdx(@, j) ELSE @]

\* the node with one more child (under key kk, if it is a mapping)
AddChild(node, kk, child) ==
    [node EXCEPT !.items = Append(@, child),
                 !.keys = IF node.t = "map" THEN Append(@, kk) ELSE @]

----------------------------------------------------------------------------
(* The `sops` branch.  has* say which fields are present; `absent` says    *)
(* that the tree has no `sops` key at all.                                 *)

EmptySops ==
    [absent |-> FALSE,
     hasmac |-> FALSE, mac |-> NoneV,
     haslm |-> FALSE, lastmodified |-> <<>>,
     hasversion |-> FALSE, version |-> <<>>,
     hassuffix |-> FALSE, unencrypted_suffix |-> <<>>,
     haskms |-> FALSE, kms |-> <<>>,
     haspgp |-> FALSE, pgp |-> <<>>]

EmptyDoc == [data |-> Map(<<>>, <<>>), sops |-> EmptySops]
NoRes == [doc |-> EmptyDoc, stash |-> NoStash, err |-> OK]
NoTamper == [kind |-> "none", src |-> <<>>, dst |-> <<>>]

----------------------------------------------------------------------------
(* The bounded inputs of the tree crypto engine *)

MaxList == 2      \* longest sequence in an input tree

Keys == {"K1", "K2"}     \* data keys
AttackerKey == "KA"      \* a key of someone who holds no data key

PlainKey == <<"a">>
OtherKey == <<"b">>
ClearKey == <<"c">> \o DEFAULT_UNENCRYPTED_SUFFIX
RootKeys == {PlainKey, OtherKey, ClearKey}

LeafVals ==
    {StrV(<<"a", "b">>), StrV(<<"1", "2">>), StrV(<<>>), IntV(12), IntV(0),
     FloatV(15), BoolV(TRUE), BoolV(FALSE), BytesV(<<"xFF">>)}
ListVals == {StrV(<<"a", "b">>), StrV(<<"c">>), IntV(0)}

ListNodes ==
    UNION {{List([j \in 1..n |-> Leaf(f[j])]) : f \in [1..n -> ListVals]}
           : n \in 1..MaxList}
SubNodes ==
    {Leaf(v) : v \in LeafVals}
    \cup ListNodes
    \cup {Map(<<kk>>, <<Leaf(v)>>) : kk \in {PlainKey, ClearKey},
                                      v \in {StrV(<<"a", "b">>), IntV(0)}}
    \cup {List(<<Map(<<PlainKey>>, <<Leaf(StrV(<<"a", "b">>))>>),
                 Map(<<PlainKey>>, <<Leaf(v)>>)>>)
          : v \in {StrV(<<"a", "b">>), StrV(<<"c">>)}}

InputTrees ==
    {Map(<<kk>>, <<n>>) : kk \in RootKeys, n \in SubNodes}
    \cup {Map(ks, <<Leaf(v1), Leaf(v2)>>)
          : ks \in {q \in RootKeys \X RootKeys : q[1] # q[2]},
            v1 \in {StrV(<<"a", "b">>), IntV(12)},
            v2 \in {StrV(<<"a", "b">>), StrV(<<"c">>)}}

\* what someone who edits the stored file may write into a leaf
TamperVals ==
    {StrV(<<"a">>), StrV(<<"b", "c">>), StrV(<<"1", "2">>), IntV(12)}
TokenTypes == {"str", "int", "float", "bool", "bytes"}

\* the variables of the command-line dispatcher, unused by the engine
MainIdle ==
    /\ args = "" /\ env = "" /\ need_key = FALSE /\ existing_file = FALSE
    /\ edits = 0 /\ target = "" /\ tmpfile = "" /\ stdout = ""
    /\ stash = NoStash /\ tmphash = "" /\ exitcode = -1
    /\ call = "" /\ ret = ""

MainUnchanged ==
    UNCHANGED <<args, env, need_key, existing_file, edits, target, tmpfile,
                stdout, stash, tmphash, exitcode, call, ret>>

----------------------------------------------------------------------------
(* The engine as a library: a clear tree with an empty `sops` branch is    *)
(* encrypted, the stored document may be edited by someone who does not    *)
(* hold the data key, and the document is decrypted.                       *)

CryptoInit ==
    /\ pc = "clear"
    /\ tree \in {[data |-> t, sops |-> EmptySops] : t \in InputTrees}
    /\ orig = tree
    /\ stored = EmptyDoc
    /\ key \in Keys
    /\ INPUT_VERSION = VERSION
    /\ UNENCRYPTED_SUFFIX = DEFAULT_UNENCRYPTED_SUFFIX
    /\ ivctr = 0
    /\ tamper = NoTamper
    /\ res = NoRes
    /\ ignoreMac = FALSE
    /\ MainIdle

CryptoFrame == UNCHANGED <<key, INPUT_VERSION, UNENCRYPTED_SUFFIX, orig>>

\* walk_and_encrypt(tree, key)
EncryptPass ==
    /\ pc = "clear"
    /\ LET r == walk_and_encrypt_root(tree, key, NoStash, ivctr,
                                      UNENCRYPTED_SUFFIX)
       IN  /\ tree' = r.doc
           /\ stored' = r.doc
           /\ ivctr' = r.iv
    /\ pc' = "encrypted"
    /\ UNCHANGED <<tamper, res, ignoreMac>>
    /\ CryptoFrame /\ MainUnchanged

Tampered(kind, src, dst, newdata) ==
    /\ tree' = [tree EXCEPT !.data = newdata]
    /\ tamper' = [kind |-> kind, src |-> src, dst |-> dst]
    /\ pc' = "tampered"
    /\ UNCHANGED <<stored, ivctr, res, ignoreMac>>
    /\ CryptoFrame /\ MainUnchanged

\* a leaf is overwritten with a clear value; leaves of clear subtrees may
\* be overwritten one after the other
TamperSet ==
    /\ \/ pc = "encrypted"
       \/ pc = "tampered" /\ tamper.kind = "setclear"
    /\ \E p \in LeafPaths(tree.data), v \in TamperVals :
        /\ pc = "tampered" =>
              UnderSuffix(tree.data, p, UNENCRYPTED_SUFFIX)
        /\ NodeAt(tree.data, p) # Leaf(v)
        /\ Tampered(IF UnderSuffix(tree.data, p, UNENCRYPTED_SUFFIX)
                    THEN "setclear" ELSE "set",
                    p, p, SetAt(tree.data, p, Leaf(v)))

\* the `type` field of a token is rewritten
TamperType ==
    /\ pc = "encrypted"
    /\ \E p \in LeafPaths(tree.data), ty \in TokenTypes :
        LET v == NodeAt(tree.data, p).val
        IN  /\ IsToken(v)
            /\ v.tok.type # ty
            /\ Tampered("type", p, p,
                        SetAt(tree.data, p,
                              Leaf(TokV([v.tok EXCEPT !.type = ty]))))

\* a token is copied over another leaf
TamperMove ==
    /\ pc = "encrypted"
    /\ \E p \in LeafPaths(tree.data), q \in LeafPaths(tree.data) :
        /\ p # q
        /\ IsToken(NodeAt(tree.data, p).val)
        /\ Tampered("move", p, q,
                    SetAt(tree.data, q, NodeAt(tree.data, p)))

\* a leaf is added to a mapping or a sequence
TamperAdd ==
    /\ pc = "encrypted"
    /\ \E p \in InnerPaths(tree.data), v \in TamperVals :
        LET n == NodeAt(tree.data, p)
        IN  /\ n.t = "map" => <<"n">> \notin {n.keys[j] : j \in 1..Len(n.keys)}
            /\ Tampered("add", p, p \o <<Len(n.items) + 1>>,
                        SetAt(tree.data, p, AddChild(n, <<"n">>, Leaf(v))))

\* a leaf is removed from its mapping or sequence
TamperRemove ==
    /\ pc = "encrypted"
    /\ \E p \in LeafPaths(tree.data) :
        LET parent == SubSeq(p, 1, Len(p) - 1)
        IN  Tampered("remove", p, p,
                     SetAt(tree.data, parent,
                           DropChild(NodeAt(tree.data, parent), p[Len(p)])))

\* a leaf is replaced by a token sealed under a key that is not the data key
TamperForge ==
    /\ pc = "encrypted"
    /\ \E p \in LeafPaths(tree.data) :
        Tampered("forge", p, p,
                 SetAt(tree.data, p,
                       Leaf(TokV(Seal(AttackerKey, 0,
                                      ColonJoin(KeysOn(tree.data, p)),
                                      <<"a">>, "str")))))

\* the tree is rewritten with clear leaves and `sops.mac` is replaced by a
\* plain hex digest, or by a token under another key, or removed
TamperMac ==
    /\ pc = "encrypted"
    /\ \E h \in {<<>>, <<"a">>}, how \in {"plain", "forged", "removed"} :
        /\ tree' = [data |-> Map(<<PlainKey, ClearKey>>,
                                 <<Leaf(StrV(<<"a">>)), Leaf(StrV(h))>>),
                    sops |-> [tree.sops EXCEPT
                        !.hasmac = (how # "removed"),
                        !.mac = CASE how = "plain" -> StrV(HexDigest(h))
                                  [] how = "forged" ->
                                        TokV(Seal(AttackerKey, 0,
                                                  tree.sops.lastmodified,
                                                  HexDigest(h), "str"))
                                  [] OTHER -> NoneV]]
        /\ tamper' = [kind |-> "mac" \o how, src |-> <<>>, dst |-> <<>>]
    /\ pc' = "tampered"
    /\ UNCHANGED <<stored, ivctr, res, ignoreMac>>
    /\ CryptoFrame /\ MainUnchanged

\* walk_and_decrypt(tree, key, ignoreMac=ign)
DecryptPass ==
    /\ pc \in {"encrypted", "tampered"}
    /\ \E ign \in BOOLEAN :
        /\ ignoreMac' = ign
        /\ res' = walk_and_decrypt_root(tree, key, NoStash, ign,
                                        INPUT_VERSION, UNENCRYPTED_SUFFIX)
    /\ pc' = "done"
    /\ UNCHANGED <<tree, stored, ivctr, tamper>>
    /\ CryptoFrame /\ MainUnchanged

CryptoNext ==
    \/ EncryptPass
    \/ TamperSet
    \/ TamperType
    \/ TamperMove
    \/ TamperAdd
    \/ TamperRemove
    \/ TamperForge
    \/ TamperMac
    \/ DecryptPass

SpecCrypto == CryptoInit /\ [][CryptoNext]_vars

----------------------------------------------------------------------------
(* Properties of the engine, checked under SpecCrypto *)

Untampered == tamper.kind = "none"
Checked == pc = "done" /\ ~ignoreMac

\* the tampered position lies outside every unencrypted-suffix subtree
TamperOutsideClear ==
    IF tamper.kind = "add"
    THEN ~UnderSuffix(tree.data, tamper.dst, UNENCRYPTED_SUFFIX)
    ELSE ~UnderSuffix(stored.data, tamper.dst, UNENCRYPTED_SUFFIX)

\* C1: round trip.  Decrypting, with the MAC check on, what the encrypt pass
\* wrote for a tree with an empty `sops` branch ends without error and gives
\* back the original tree: every leaf value, every leaf kind, the key order.
C1_RoundTrip ==
    (Checked /\ Untampered) => (res.err = OK /\ res.doc.data = orig.data)

\* C2: tamper rejection.  After a leaf outside the unencrypted-suffix
\* subtrees of an encrypted document was changed, replaced by a clear value,
\* added or removed, the MAC-checked decrypt never returns a tree.
C2_TamperRejected ==
    (Checked /\ TamperOutsideClear
        /\ tamper.kind \in {"set", "type", "move", "add", "remove", "forge"})
    => res.err # OK

\* C3: clear values are integrity-protected.  After the value of a leaf
\* under an unencrypted-suffix key was modified, the MAC-checked decrypt
\* ends with exit code 51.
C3_ClearProtected ==
    (Checked /\ tamper.kind = "setclear") => res.err = Panic(51)

\* C4: MAC authenticity.  The MAC-checked decrypt succeeds only if
\* `sops.mac` is a token that opens under the data key with
\* `sops.lastmodified` as AAD, to the hex of the recomputed digest.
C4_MacAuthentic ==
    (Checked /\ res.err = OK)
    => /\ tree.sops.hasmac
       /\ IsToken(tree.sops.mac)
       /\ Opens(tree.sops.mac.tok, key, tree.sops.lastmodified)

\* C5: the unencrypted suffix is sticky and a frame condition.  The encrypt
\* pass leaves every leaf under a suffixed key equal to its input, turns
\* every other non-empty scalar leaf into a token, and the decrypt pass
\* restores every leaf.
C5_SuffixFrame ==
    /\ pc = "encrypted" =>
        \A p \in LeafPaths(orig.data) :
            IF UnderSuffix(orig.data, p, UNENCRYPTED_SUFFIX)
            THEN NodeAt(stored.data, p) = NodeAt(orig.data, p)
            ELSE ~(Falsy(NodeAt(orig.data, p).val)
                   /\ NodeAt(orig.data, p).val.kind # "bool")
                 => IsToken(NodeAt(stored.data, p).val)
    /\ (pc = "done" /\ Untampered) =>
        \A p \in LeafPaths(orig.data) :
            NodeAt(res.doc.data, p) = NodeAt(orig.data, p)

\* the AAD the walkers bind a leaf to: the mapping keys on its path, each
\* followed by a colon
PathAAD(doc, p) == ColonJoin(KeysOn(doc.data, p))

MovedIntoEncrypted ==
    /\ pc = "done"
    /\ tamper.kind = "move"
    /\ ~UnderSuffix(stored.data, tamper.dst, UNENCRYPTED_SUFFIX)

\* C6 as stated: location binding.  A token of the encrypt pass fails AEAD
\* authentication when it is decrypted at any different path, a different
\* index of the same sequence included.
C6_BoundToPath ==
    MovedIntoEncrypted => res.err = Raise("InvalidTag")

\* C6 amended: a token of the encrypt pass, decrypted at another position,
\* fails AEAD authentication exactly when the mapping keys on the way to
\* the two positions differ; sequence indices are not bound.
C6_BoundToKeys ==
    MovedIntoEncrypted =>
        (res.err = Raise("InvalidTag")
         <=> PathAAD(stored, tamper.src) # PathAAD(stored, tamper.dst))

\* a token moved to another index of its sequence was authenticated
C6_Witness ==
    /\ MovedIntoEncrypted
    /\ tamper.src # tamper.dst
    /\ PathAAD(stored, tamper.src) = PathAAD(stored, tamper.dst)
    /\ res.err # Raise("InvalidTag")

----------------------------------------------------------------------------
(* Master-key entries and the data key.  An entry of `sops.kms` is a       *)
(* record [null, arn, enc, created_at], one of `sops.pgp` has `fp` for     *)
(* `arn`.  `enc` is what the key service returned when it wrapped a data   *)
(* key: only the service opens it.  NoEnc stands for a missing or empty    *)
(* `enc`.                                                                  *)

NoEnc == [form |-> "", by |-> "", k |-> ""]
Wrap(master, k) == [form |-> "wrap", by |-> master, k |-> k]

KmsEntry(arn) ==
    [null |-> FALSE, arn |-> arn, role |-> "", enc |-> NoEnc,
     created_at |-> <<>>]
PgpEntry(fp) ==
    [null |-> FALSE, fp |-> fp, enc |-> NoEnc, created_at |-> <<>>]
NullKms == [KmsEntry("") EXCEPT !.null = TRUE]
NullPgp == [PgpEntry("") EXCEPT !.null = TRUE]

\* an ARN the pattern of get_aws_session_for_entry does not match, a role
\* that cannot be assumed, and what a key unwraps to that is not 32 bytes
BadArn == "not-an-arn"
DeniedRole == "arn:aws:iam::denied"
ShortKey == "K16"
KeyLen(k) == IF k = ShortKey THEN 16 ELSE 32

\* get_aws_session_for_entry(entry) returns a client and no error
get_aws_session_for_entry(entry) ==
    entry.arn # BadArn /\ entry.role # DeniedRole

\* variant: the data key is stored as it is
encrypt_key_with_kms_raw(k, entry, service_ok) ==
    [none |-> FALSE,
     entry |-> [entry EXCEPT !.enc = [form |-> "raw", by |-> "", k |-> k],
                             !.created_at = NOW]]

\* the entry with the data key wrapped, or nothing (None) when the ARN is
\* missing, no client is obtained or the service fails
encrypt_key_with_kms(k, entry, service_ok) ==
    IF entry.arn = "" \/ ~get_aws_session_for_entry(entry) \/ ~service_ok
    THEN [none |-> TRUE, entry |-> NullKms]
    ELSE [none |-> FALSE,
          entry |-> [entry EXCEPT !.enc = Wrap(entry.arn, k),
                                  !.created_at = NOW]]

encrypt_key_with_pgp(k, entry, service_ok) ==
    IF entry.fp = "" \/ ~service_ok
    THEN [none |-> TRUE, entry |-> NullPgp]
    ELSE [none |-> FALSE,
          entry |-> [entry EXCEPT !.enc = Wrap(entry.fp, k),
                                  !.created_at = NOW]]

\* one pass of the loop of get_key_from_kms returns a key: the entry has
\* enc and arn, a client is obtained and kms.decrypt does not raise
kms_decrypts(entry, service_ok) ==
    /\ ~entry.null /\ entry.enc # NoEnc /\ entry.arn # ""
    /\ get_aws_session_for_entry(entry)
    /\ service_ok /\ entry.enc.form = "wrap"

\* one pass of the loop of get_key_from_pgp returns a key: the entry has
\* enc, and gpg -d writes 32 bytes
pgp_decrypts(entry, service_ok) ==
    /\ ~entry.null /\ entry.enc # NoEnc
    /\ service_ok /\ entry.enc.form = "wrap"
    /\ KeyLen(entry.enc.k) = 32

\* variant: the search ends at the first entry that fails
first_kms_stop(kms, i, service_ok) ==
    IF i <= Len(kms) /\ kms_decrypts(kms[i], service_ok) THEN i ELSE 0

\* index of the first entry the search returns a key from, 0 if none
RECURSIVE first_kms(_, _, _)
first_kms(kms, i, service_ok) ==
    IF i > Len(kms) THEN 0
    ELSE IF kms_decrypts(kms[i], service_ok) THEN i
    ELSE first_kms(kms, i + 1, service_ok)

RECURSIVE first_pgp(_, _, _)
first_pgp(pgp, i, service_ok) ==
    IF i > Len(pgp) THEN 0
    ELSE IF pgp_decrypts(pgp[i], service_ok) THEN i
    ELSE first_pgp(pgp, i + 1, service_ok)

get_key_from_kms(doc, service_ok) ==
    IF ~doc.sops.haskms \/ first_kms(doc.sops.kms, 1, service_ok) = 0
    THEN [none |-> TRUE, key |-> ""]
    ELSE [none |-> FALSE,
          key |-> doc.sops.kms[first_kms(doc.sops.kms, 1, service_ok)].enc.k]

get_key_from_pgp(doc, service_ok) ==
    IF ~doc.sops.haspgp \/ first_pgp(doc.sops.pgp, 1, service_ok) = 0
    THEN [none |-> TRUE, key |-> ""]
    ELSE [none |-> FALSE,
          key |-> doc.sops.pgp[first_pgp(doc.sops.pgp, 1, service_ok)].enc.k]

\* the loops of get_key over a list when a new key was generated: every
\* entry is wrapped anew, and the first failure ends the process.  The
\* entry is updated in place, and stored again at index c, the number of
\* non-null entries met before it.
RECURSIVE wrap_all_kms(_, _, _, _, _)
wrap_all_kms(kms, i, c, k, service_ok) ==
    IF i > Len(kms) THEN [list |-> kms, err |-> OK]
    ELSE IF kms[i].null THEN wrap_all_kms(kms, i + 1, c, k, service_ok)
    ELSE IF encrypt_key_with_kms(k, kms[i], service_ok).none
    THEN [list |-> kms,
          err |-> IF kms[i].arn = "" THEN Raise("KeyError") ELSE Panic(1)]
    ELSE wrap_all_kms(
            [kms EXCEPT ![i] = encrypt_key_with_kms(k, kms[i],
                                                    service_ok).entry,
                        ![c + 1] = encrypt_key_with_kms(k, kms[i],
                                                        service_ok).entry],
            i + 1, c + 1, k, service_ok)

RECURSIVE wrap_all_pgp(_, _, _, _, _)
wrap_all_pgp(pgp, i, c, k, service_ok) ==
    IF i > Len(pgp) THEN [list |-> pgp, err |-> OK]
    ELSE IF pgp[i].null THEN wrap_all_pgp(pgp, i + 1, c, k, service_ok)
    ELSE IF encrypt_key_with_pgp(k, pgp[i], service_ok).none
    THEN [list |-> pgp,
          err |-> IF pgp[i].fp = "" THEN Raise("KeyError") ELSE Panic(1)]
    ELSE wrap_all_pgp(
            [pgp EXCEPT ![i] = encrypt_key_with_pgp(k, pgp[i],
                                                    service_ok).entry,
                        ![c + 1] = encrypt_key_with_pgp(k, pgp[i],
                                                        service_ok).entry],
            i + 1, c + 1, k, service_ok)

\* get_key(tree, need_key): [key, tree, err].  `fresh` is what os.urandom
\* returns.
get_key_new(doc, fresh, e, wk, wp) ==
    IF wk.err # OK THEN [key |-> fresh, tree |-> doc, err |-> wk.err]
    ELSE IF wp.err # OK THEN [key |-> fresh, tree |-> doc, err |-> wp.err]
    ELSE [key |-> fresh,
          tree |-> [doc EXCEPT !.sops.kms = wk.list, !.sops.pgp = wp.list],
          err |-> OK]

get_key(doc, needkey, fresh, e) ==
    IF needkey
    THEN get_key_new(doc, fresh, e,
                     wrap_all_kms(doc.sops.kms, 1, 0, fresh, e.kms_ok),
                     wrap_all_pgp(doc.sops.pgp, 1, 0, fresh, e.pgp_ok))
    ELSE IF ~get_key_from_kms(doc, e.kms_ok).none
    THEN [key |-> get_key_from_kms(doc, e.kms_ok).key, tree |-> doc,
          err |-> OK]
    ELSE IF ~get_key_from_pgp(doc, e.pgp_ok).none
    THEN [key |-> get_key_from_pgp(doc, e.pgp_ok).key, tree |-> doc,
          err |-> OK]
    ELSE [key |-> "", tree |-> doc, err |-> Panic(128)]

\* the loops of update_master_keys: an entry without `enc` is wrapped; when
\* that fails, None is stored at index c
RECURSIVE fill_kms(_, _, _, _, _)
fill_kms(kms, i, c, k, service_ok) ==
    IF i > Len(kms) THEN kms
    ELSE IF kms[i].null THEN fill_kms(kms, i + 1, c, k, service_ok)
    ELSE IF kms[i].enc # NoEnc THEN fill_kms(kms, i + 1, c + 1, k, service_ok)
    ELSE IF encrypt_key_with_kms(k, kms[i], service_ok).none
    THEN fill_kms([kms EXCEPT ![c + 1] = NullKms], i + 1, c + 1, k,
                  service_ok)
    ELSE fill_kms(
            [kms EXCEPT ![i] = encrypt_key_with_kms(k, kms[i],
                                                    service_ok).entry,
                        ![c + 1] = encrypt_key_with_kms(k, kms[i],
                                                        service_ok).entry],
            i + 1, c + 1, k, service_ok)

RECURSIVE fill_pgp(_, _, _, _, _)
fill_pgp(pgp, i, c, k, service_ok) ==
    IF i > Len(pgp) THEN pgp
    ELSE IF pgp[i].null THEN fill_pgp(pgp, i + 1, c, k, service_ok)
    ELSE IF pgp[i].enc # NoEnc THEN fill_pgp(pgp, i + 1, c + 1, k, service_ok)
    ELSE IF encrypt_key_with_pgp(k, pgp[i], service_ok).none
    THEN fill_pgp([pgp EXCEPT ![c + 1] = NullPgp], i + 1, c + 1, k,
                  service_ok)
    ELSE fill_pgp(
            [pgp EXCEPT ![i] = encrypt_key_with_pgp(k, pgp[i],
                                                    service_ok).entry,
                        ![c + 1] = encrypt_key_with_pgp(k, pgp[i],
                                                        service_ok).entry],
            i + 1, c + 1, k, service_ok)

update_master_keys(doc, k, e, suffix) ==
    [doc EXCEPT
        !.sops.kms = IF doc.sops.haskms
                     THEN fill_kms(@, 1, 0, k, e.kms_ok) ELSE @,
        !.sops.pgp = IF doc.sops.haspgp
                     THEN fill_pgp(@, 1, 0, k, e.pgp_ok) ELSE @,
        !.sops.version = IF ~doc.sops.hasversion
                            \/ A_is_newer_than_B(VERSION, doc.sops.version)
                         THEN VERSION ELSE @,
        !.sops.hasversion = TRUE,
        !.sops.unencrypted_suffix = suffix,
        !.sops.hassuffix = TRUE]

\* variant: every tree is taken to have a master key
check_master_keys_any(doc) == TRUE

check_master_keys(doc) ==
    \/ /\ doc.sops.haskms
       /\ \E i \in 1..Len(doc.sops.kms) :
            ~doc.sops.kms[i].null /\ doc.sops.kms[i].arn # ""
    \/ /\ doc.sops.haspgp
       /\ \E i \in 1..Len(doc.sops.pgp) :
            ~doc.sops.pgp[i].null /\ doc.sops.pgp[i].fp # ""

\* parse_kms_arn / parse_pgp_fp on a list of identifiers
\* an ARN that names a role, and one that begins with the role marker
RoleArn == "M2+arn:aws:iam::R1"
BareRoleArn == "+arn:aws:iam::R1"

\* arn.find("+arn:aws:iam::"), arn[:rolepos] and arn[rolepos+1:] on the
\* ARNs that occur
find_role(arn) ==
    CASE arn = RoleArn -> 2 [] arn = BareRoleArn -> 0 [] OTHER -> -1
before_role(arn) == CASE arn = RoleArn -> "M2" [] OTHER -> ""
after_role(arn) == "arn:aws:iam::R1"

kms_entry(arn) ==
    IF find_role(arn) > 0
    THEN [KmsEntry(before_role(arn)) EXCEPT !.role = after_role(arn)]
    ELSE KmsEntry(arn)

parse_kms_arn(kms_arns) == [i \in 1..Len(kms_arns) |-> kms_entry(kms_arns[i])]
parse_pgp_fp(pgp_fps) == [i \in 1..Len(pgp_fps) |-> PgpEntry(pgp_fps[i])]

\* variant: an entry with a non-empty arn is taken to hold a data key
has_kms_key_arn_only(sops) ==
    /\ sops.haskms
    /\ \E i \in 1..Len(sops.kms) : ~sops.kms[i].null /\ sops.kms[i].arn # ""

\* a list holds a data key: an entry with non-empty arn/fp and enc
has_kms_key(sops) ==
    /\ sops.haskms
    /\ \E i \in 1..Len(sops.kms) :
        ~sops.kms[i].null /\ sops.kms[i].arn # "" /\ sops.kms[i].enc # NoEnc
has_pgp_key(sops) ==
    /\ sops.haspgp
    /\ \E i \in 1..Len(sops.pgp) :
        ~sops.pgp[i].null /\ sops.pgp[i].fp # "" /\ sops.pgp[i].enc # NoEnc

\* the `sops` branch created for a tree that has none
NewSops(suffix) ==
    [EmptySops EXCEPT !.hasversion = TRUE, !.version = VERSION,
                      !.hassuffix = TRUE, !.unencrypted_suffix = suffix]

with_sops(doc, suffix) ==
    IF doc.sops.absent THEN [doc EXCEPT !.sops = NewSops(suffix)] ELSE doc

----------------------------------------------------------------------------
(* find_config_for_file(filename, configloc).  A path is [none, base]:     *)
(* None, or a path whose base name is base.  A regular expression is a     *)
(* literal text, and re.search finds it anywhere in the name.  cfgs is the  *)
(* file system as the search sees it: cfgs[i + 1] is `.sops.yaml` i         *)
(* directories up.                                                          *)

DEFAULT_CONFIG_FILE_SEARCH_DEPTH == 100

NonePath == [none |-> TRUE, base |-> <<>>]
Path(base) == [none |-> FALSE, base |-> base]

\* variant: re.match, which finds the text at the start of the name only
re_match(regex, filename) ==
    /\ Len(regex) <= Len(filename)
    /\ SubSeq(filename, 1, Len(regex)) = regex

\* re.search(regex, filename), for a regex that is a literal text
re_search(regex, filename) ==
    \E i \in 0..(Len(filename) - Len(regex)) :
        SubSeq(filename, i + 1, i + Len(regex)) = regex

\* a creation rule; kms and pgp are <<>> when the rule has no such field
Rule(has_regex, regex, kms, pgp) ==
    [has_regex |-> has_regex, filename_regex |-> regex, kms |-> kms,
     pgp |-> pgp]
NoRule == Rule(FALSE, <<>>, <<>>, <<>>)

\* a file at a configuration location: absent, unreadable, an empty YAML
\* document (None), or a mapping with or without `creation_rules`
NoCfg == [kind |-> "absent", has_rules |-> FALSE, rules |-> <<>>]
BadCfg == [kind |-> "unreadable", has_rules |-> FALSE, rules |-> <<>>]
NullCfg == [kind |-> "null", has_rules |-> FALSE, rules |-> <<>>]
Cfg(has_rules, rules) ==
    [kind |-> "doc", has_rules |-> has_rules, rules |-> rules]

\* --config as given: not given, or the file at the location given
NoLoc == [given |-> FALSE, file |-> NoCfg]
Loc(file) == [given |-> TRUE, file |-> file]

\* what find_config_for_file returns: None, a rule, or a fatal error
NoDefaults == [found |-> FALSE, rule |-> NoRule, err |-> OK]
Found(rule) == [found |-> TRUE, rule |-> rule, err |-> OK]
ConfigFailed(err) == [found |-> FALSE, rule |-> NoRule, err |-> err]

\* the search from the current directory upwards: the first level at which
\* os.stat finds the file, or -1
RECURSIVE search_loop(_, _)
search_loop(cfgs, i) ==
    IF i >= DEFAULT_CONFIG_FILE_SEARCH_DEPTH \/ i >= Len(cfgs) THEN -1
    ELSE IF cfgs[i + 1].kind # "absent" THEN i
    ELSE search_loop(cfgs, i + 1)

\* the loop over config["creation_rules"]
RECURSIVE rules_loop(_, _, _)
rules_loop(rules, j, filename) ==
    IF j > Len(rules) THEN NoDefaults
    ELSE IF rules[j].has_regex
            /\ ~re_search(rules[j].filename_regex, filename)
    THEN rules_loop(rules, j + 1, filename)
    ELSE Found(rules[j])

\* the part of find_config_for_file after the file was located
load_config(file, filename) ==
    IF file.kind \in {"absent", "unreadable"} THEN ConfigFailed(Panic(61))
    ELSE IF file.kind = "null" THEN ConfigFailed(Raise("TypeError"))
    ELSE IF ~file.has_rules THEN NoDefaults
    ELSE rules_loop(file.rules, 1, filename)

find_config_for_file(filename, configloc, cfgs) ==
    IF filename.none THEN ConfigFailed(Raise("TypeError"))
    ELSE IF filename.base = <<>> THEN NoDefaults
    ELSE IF configloc.given THEN load_config(configloc.file, filename.base)
    ELSE IF search_loop(cfgs, 0) < 0 THEN NoDefaults
    ELSE load_config(cfgs[search_loop(cfgs, 0) + 1], filename.base)

\* the key material verify_or_create_sops_branch works with: what was
\* passed in or, when nothing was, what a creation rule supplies
config_defaults(kms_arns, pgp_fps, path, configloc, cfgs) ==
    IF kms_arns = <<>> /\ pgp_fps = <<>>
    THEN find_config_for_file(path, configloc, cfgs)
    ELSE NoDefaults

supplied_kms(kms_arns, pgp_fps, c) ==
    IF kms_arns = <<>> /\ pgp_fps = <<>> /\ c.found THEN c.rule.kms
    ELSE kms_arns
supplied_pgp(kms_arns, pgp_fps, c) ==
    IF kms_arns = <<>> /\ pgp_fps = <<>> /\ c.found THEN c.rule.pgp
    ELSE pgp_fps

create_keys(t, kms, pgp) ==
    IF kms = <<>> /\ pgp = <<>>
    THEN [tree |-> t, need_key |-> TRUE, err |-> Panic(111)]
    ELSE [tree |-> [t EXCEPT
                      !.sops.haskms = IF kms # <<>> THEN TRUE ELSE @,
                      !.sops.kms = IF kms # <<>> THEN parse_kms_arn(kms)
                                   ELSE @,
                      !.sops.haspgp = IF pgp # <<>> THEN TRUE ELSE @,
                      !.sops.pgp = IF pgp # <<>> THEN parse_pgp_fp(pgp)
                                   ELSE @],
          need_key |-> TRUE, err |-> OK]

create_with(t, kms_arns, pgp_fps, c) ==
    IF c.err # OK THEN [tree |-> t, need_key |-> TRUE, err |-> c.err]
    ELSE create_keys(t, supplied_kms(kms_arns, pgp_fps, c),
                     supplied_pgp(kms_arns, pgp_fps, c))

\* verify_or_create_sops_branch: [tree, need_key, err]
verify_or_create_sops_branch(doc, kms_arns, pgp_fps, path, configloc, cfgs, suffix) ==
    IF has_kms_key(with_sops(doc, suffix).sops)
       \/ has_pgp_key(with_sops(doc, suffix).sops)
    THEN [tree |-> with_sops(doc, suffix), need_key |-> FALSE, err |-> OK]
    ELSE create_with(with_sops(doc, suffix), kms_arns, pgp_fps,
                     config_defaults(kms_arns, pgp_fps, path, configloc,
                                     cfgs))

\* variant: no entry is taken to be in the list already
kms_known_never(kms, arn) == FALSE

\* add_new_master_keys, for one list: an entry is appended unless an entry
\* with the same identifier is in the list
kms_known(kms, arn) ==
    \E i \in 1..Len(kms) : ~kms[i].null /\ kms[i].arn = arn
pgp_known(pgp, fp) ==
    \E i \in 1..Len(pgp) : ~pgp[i].null /\ pgp[i].fp = fp

RECURSIVE add_kms_loop(_, _, _)
add_kms_loop(kms, new, j) ==
    IF j > Len(new) THEN kms
    ELSE add_kms_loop(IF kms_known(kms, new[j].arn) THEN kms
                      ELSE Append(kms, new[j]),
                      new, j + 1)

RECURSIVE add_pgp_loop(_, _, _)
add_pgp_loop(pgp, new, j) ==
    IF j > Len(new) THEN pgp
    ELSE add_pgp_loop(IF pgp_known(pgp, new[j].fp) THEN pgp
                      ELSE Append(pgp, new[j]),
                      new, j + 1)

\* when the tree has no list yet, each new entry in turn becomes the list
add_new_master_keys(doc, new_kms, new_pgp) ==
    [doc EXCEPT
        !.sops.kms = IF new_kms = <<>> THEN @
                     ELSE IF doc.sops.haskms
                     THEN add_kms_loop(@, parse_kms_arn(new_kms), 1)
                     ELSE add_kms_loop(<<parse_kms_arn(new_kms)[1]>>,
                                       parse_kms_arn(new_kms), 2),
        !.sops.haskms = @ \/ new_kms # <<>>,
        !.sops.pgp = IF new_pgp = <<>> THEN @
                     ELSE IF doc.sops.haspgp
                     THEN add_pgp_loop(@, parse_pgp_fp(new_pgp), 1)
                     ELSE add_pgp_loop(<<parse_pgp_fp(new_pgp)[1]>>,
                                       parse_pgp_fp(new_pgp), 2),
        !.sops.haspgp = @ \/ new_pgp # <<>>]

\* remove_master_keys, for one identifier: the list is scanned while it is
\* being shortened; `it` is the scan position, i counts the non-null
\* entries met, and a match deletes the element at index i
RECURSIVE rm_kms_scan(_, _, _, _)
rm_kms_scan(kms, it, i, arn) ==
    IF it > Len(kms) THEN kms
    ELSE IF kms[it].null THEN rm_kms_scan(kms, it + 1, i, arn)
    ELSE rm_kms_scan(IF kms[it].arn = arn THEN RemoveIdx(kms, i + 1)
                     ELSE kms,
                     it + 1, i + 1, arn)

RECURSIVE rm_pgp_scan(_, _, _, _)
rm_pgp_scan(pgp, it, i, fp) ==
    IF it > Len(pgp) THEN pgp
    ELSE IF pgp[it].null THEN rm_pgp_scan(pgp, it + 1, i, fp)
    ELSE rm_pgp_scan(IF pgp[it].fp = fp THEN RemoveIdx(pgp, i + 1)
                     ELSE pgp,
                     it + 1, i + 1, fp)

RECURSIVE rm_kms_loop(_, _, _)
rm_kms_loop(kms, rm, j) ==
    IF j > Len(rm) THEN kms
    ELSE rm_kms_loop(rm_kms_scan(kms, 1, 0, rm[j].arn), rm, j + 1)

RECURSIVE rm_pgp_loop(_, _, _)
rm_pgp_loop(pgp, rm, j) ==
    IF j > Len(rm) THEN pgp
    ELSE rm_pgp_loop(rm_pgp_scan(pgp, 1, 0, rm[j].fp), rm, j + 1)

remove_master_keys(doc, rm_kms, rm_pgp) ==
    [doc EXCEPT
        !.sops.kms = IF doc.sops.haskms
                     THEN rm_kms_loop(@, parse_kms_arn(rm_kms), 1)
                     ELSE @,
        !.sops.pgp = IF doc.sops.haspgp
                     THEN rm_pgp_loop(@, parse_pgp_fp(rm_pgp), 1)
                     ELSE @]

----------------------------------------------------------------------------
(* Files.  The content of a file is a serialized document; `ws` tells two  *)
(* serializations of the same document apart (layout, comments).  A file   *)
(* may also hold what does not parse, or what parses to nothing.           *)

NoContent == [kind |-> "none", doc |-> EmptyDoc, ws |-> 0]
DocContent(doc) == [kind |-> "doc", doc |-> doc, ws |-> 0]
InvalidContent == [kind |-> "invalid", doc |-> EmptyDoc, ws |-> 0]
NullContent == [kind |-> "null", doc |-> EmptyDoc, ws |-> 0]

\* a path that does not exist and was never written
NoFile == [exists |-> FALSE, content |-> NoContent, writes |-> 0]

\* write_file(tree, path): the file as it is afterwards
write_file(file, doc) ==
    [exists |-> TRUE, content |-> DocContent(doc),
     writes |-> file.writes + 1]

\* variant: the file is left in place
remove_skipped(file) == file

\* os.remove(path)
remove(file) == [file EXCEPT !.exists = FALSE, !.content = NoContent]

get_file_hash(file) == [sha256 |-> file.content]
NoHash == [sha256 |-> NoContent]

validate_syntax(file) == file.content.kind # "invalid"

\* tree.pop('sops', None)
pop_sops(doc) == [doc EXCEPT !.sops = [EmptySops EXCEPT !.absent = TRUE]]

\* variant: the `sops` branch of the file is kept
load_file_into_tree_as_is(file, restore, restore_sops) ==
    IF file.content.kind = "null"
    THEN [tree |-> EmptyDoc, err |-> Panic(39)]
    ELSE [tree |-> file.content.doc, err |-> OK]

\* load_file_into_tree(path, otype, restore_sops): [tree, err]
load_file_into_tree(file, restore, restore_sops) ==
    IF file.content.kind = "null"
    THEN [tree |-> EmptyDoc, err |-> Panic(39)]
    ELSE [tree |-> IF restore
                   THEN [file.content.doc EXCEPT !.sops = restore_sops]
                   ELSE file.content.doc,
          err |-> OK]

\* the template a new file starts from
DEFAULT_YAML ==
    [data |-> Map(<<<<"example_key">>>>, <<Leaf(StrV(<<"example_value">>))>>),
     sops |-> [EmptySops EXCEPT !.absent = TRUE]]

\* initialize_tree(path, ...): [tree, need_key, existing_file, version,
\* suffix, err]; version and suffix are the globals as it leaves them
init_globals(v, existing, ver, suffix) ==
    [tree |-> v.tree, need_key |-> v.need_key, existing_file |-> existing,
     version |-> IF existing /\ v.tree.sops.hasversion
                 THEN v.tree.sops.version ELSE ver,
     suffix |-> IF existing /\ v.tree.sops.hassuffix
                THEN v.tree.sops.unencrypted_suffix ELSE suffix,
     err |-> v.err]

\* the branch of initialize_tree for a file that does not exist: the
\* creation rule is looked up here, and verify_or_create_sops_branch is
\* called without path and configloc
new_tree(kms_arns, pgp_fps, c, cfgs, suffix) ==
    IF c.err # OK
    THEN [tree |-> DEFAULT_YAML, need_key |-> FALSE, err |-> c.err]
    ELSE verify_or_create_sops_branch(
             DEFAULT_YAML, supplied_kms(kms_arns, pgp_fps, c),
             supplied_pgp(kms_arns, pgp_fps, c), NonePath, NoLoc, cfgs,
             suffix)

initialize_tree(file, path, kms_arns, pgp_fps, configloc, cfgs, ver, suffix) ==
    init_globals(
        IF file.exists
        THEN verify_or_create_sops_branch(file.content.doc, kms_arns,
                                          pgp_fps, path, configloc, cfgs,
                                          suffix)
        ELSE new_tree(kms_arns, pgp_fps,
                      config_defaults(kms_arns, pgp_fps, path, configloc,
                                      cfgs),
                      cfgs, suffix),
        file.exists, ver, suffix)

----------------------------------------------------------------------------
(* The modes of main(), as functions of the tree that initialize_tree      *)
(* returned.  Each gives [err, doc, key, iv]: how the mode ends, the       *)
(* document it writes when it ends well, the data key in use and the IV    *)
(* counter.  a is the command line, e the environment.                     *)

ModeFailed(err, k, iv) == [err |-> err, doc |-> EmptyDoc, key |-> k, iv |-> iv]
ModeDone(doc, k, iv) == [err |-> OK, doc |-> doc, key |-> k, iv |-> iv]

\* encrypt mode (-e)
encrypt_write(g, w) == ModeDone(w.doc, g.key, w.iv)

encrypt_with(g, iv, suffix) ==
    IF g.err # OK THEN ModeFailed(g.err, g.key, iv)
    ELSE encrypt_write(g, walk_and_encrypt_root(g.tree, g.key, NoStash, iv,
                                                suffix))

encrypt_mode(doc, needkey, fresh, e, iv, suffix) ==
    encrypt_with(get_key(doc, needkey, fresh, e), iv, suffix)

\* decrypt mode (-d)
decrypt_write(g, w, a, iv) ==
    IF w.err # OK THEN ModeFailed(w.err, g.key, iv)
    ELSE ModeDone(IF a.show_master_keys THEN w.doc ELSE pop_sops(w.doc),
                  g.key, iv)

decrypt_with(g, a, iv, ver, suffix) ==
    IF g.err # OK THEN ModeFailed(g.err, g.key, iv)
    ELSE decrypt_write(g, walk_and_decrypt_root(g.tree, g.key, NoStash,
                                                a.ignore_mac, ver, suffix),
                       a, iv)

decrypt_mode(doc, fresh, a, e, iv, ver, suffix) ==
    decrypt_with(get_key(doc, FALSE, fresh, e), a, iv, ver, suffix)

\* the settle step of rotate and edit modes
settle(doc, a, k, e, suffix) ==
    update_master_keys(
        remove_master_keys(
            add_new_master_keys(doc, a.add_kms, a.add_pgp),
            a.rm_kms, a.rm_pgp),
        k, e, suffix)

\* rotate mode (-r)
rotate_write(g2, w2, a, e, suffix) ==
    ModeDone(settle(w2.doc, a, g2.key, e, suffix), g2.key, w2.iv)

rotate_rekey(g2, a, e, iv, suffix) ==
    IF g2.err # OK THEN ModeFailed(g2.err, g2.key, iv)
    ELSE rotate_write(g2, walk_and_encrypt_root(g2.tree, g2.key, NoStash,
                                                iv, suffix),
                      a, e, suffix)

rotate_decrypted(g, w, fresh, a, e, iv, suffix) ==
    IF w.err # OK THEN ModeFailed(w.err, g.key, iv)
    ELSE rotate_rekey(get_key(w.doc, TRUE, fresh, e), a, e, iv, suffix)

rotate_with(g, fresh, a, e, iv, ver, suffix) ==
    IF g.err # OK THEN ModeFailed(g.err, g.key, iv)
    ELSE rotate_decrypted(g, walk_and_decrypt_root(g.tree, g.key, NoStash,
                                                   a.ignore_mac, ver,
                                                   suffix),
                          fresh, a, e, iv, suffix)

rotate_mode(doc, fresh, a, e, iv, ver, suffix) ==
    rotate_with(get_key(doc, FALSE, fresh, e), fresh, a, e, iv, ver, suffix)

\* edit mode up to the temp file: [err, doc, key, sops, st], with the tree
\* that goes into the temp file, the stashed `sops` branch and the stash
edit_decrypted(g, w, a) ==
    [err |-> w.err,
     doc |-> IF a.show_master_keys THEN w.doc ELSE pop_sops(w.doc),
     key |-> g.key, sops |-> g.tree.sops, st |-> w.stash]

edit_with(g, existing, a, ver, suffix) ==
    IF g.err # OK
    THEN [err |-> g.err, doc |-> EmptyDoc, key |-> g.key,
          sops |-> EmptySops, st |-> NoStash]
    ELSE IF existing
    THEN edit_decrypted(g, walk_and_decrypt_root(g.tree, g.key, HasStash,
                                                 a.ignore_mac, ver, suffix),
                        a)
    ELSE edit_decrypted(g, [doc |-> g.tree, stash |-> HasStash, err |-> OK],
                        a)

edit_prepare(doc, needkey, existing, fresh, a, e, ver, suffix) ==
    edit_with(get_key(doc, needkey, fresh, e), existing, a, ver, suffix)

\* edit mode after the loop, when the temp file was modified: the document
\* written to the target and the IV counter
edit_settled(w, a, k, e, suffix) ==
    [doc |-> settle(w.doc, a, k, e, suffix), iv |-> w.iv]

edit_finalize(doc, k, st, a, e, iv, suffix) ==
    edit_settled(walk_and_encrypt_root(doc, k, st, iv, suffix), a, k, e,
                 suffix)

----------------------------------------------------------------------------
(* The bounded inputs of the command line *)

MaxEdits == 2     \* editor runs in one edit session
FirstIV == 10     \* the IVs drawn by this process differ from the stored

FreshKey == "K2"          \* what os.urandom(32) returns in this process
DataKeys == {"K1", "K2"}  \* the data keys that occur

\* a clear document with one KMS master key that wraps data key K1
ClearBase ==
    [data |-> Map(<<PlainKey, ClearKey>>,
                  <<Leaf(StrV(<<"a", "b">>)), Leaf(StrV(<<"c">>))>>),
     sops |-> [NewSops(DEFAULT_UNENCRYPTED_SUFFIX) EXCEPT
                 !.haskms = TRUE,
                 !.kms = <<[KmsEntry("M1") EXCEPT
                              !.enc = Wrap("M1", "K1"),
                              !.created_at = <<"t", "0">>]>>]]

\* the documents found at the target path: one written by the encrypt
\* pass, and versions of it that were edited or damaged since
GoodDoc ==
    walk_and_encrypt_root(ClearBase, "K1", NoStash, 0,
                          DEFAULT_UNENCRYPTED_SUFFIX).doc
NoMacDoc == [GoodDoc EXCEPT !.sops.hasmac = FALSE, !.sops.mac = NoneV]
BadMacDoc == [GoodDoc EXCEPT !.data = SetAt(@, <<2>>, Leaf(StrV(<<"z">>)))]
BadLeafDoc ==
    [GoodDoc EXCEPT !.data =
        SetAt(@, <<1>>, Leaf(TokV(Seal(AttackerKey, 0, <<"a", ":">>,
                                       <<"z">>, "str"))))]
NoMacBadLeafDoc == [BadLeafDoc EXCEPT !.sops.hasmac = FALSE,
                                      !.sops.mac = NoneV]
ForgedMacDoc ==
    [GoodDoc EXCEPT !.sops.mac =
        TokV(Seal(AttackerKey, 0, GoodDoc.sops.lastmodified,
                  <<"SHA512:">>, "str"))]
NoKeyDoc == [GoodDoc EXCEPT !.sops.kms = <<KmsEntry("M1")>>]
PgpDoc ==
    [GoodDoc EXCEPT !.sops.haskms = FALSE, !.sops.kms = <<>>,
                    !.sops.haspgp = TRUE,
                    !.sops.pgp = <<[PgpEntry("P1") EXCEPT
                                      !.enc = Wrap("P1", "K1"),
                                      !.created_at = <<"t", "0">>]>>]
PlainDoc == pop_sops(ClearBase)

\* a document with a sequence, written by the encrypt pass
ListBase ==
    [ClearBase EXCEPT !.data =
        Map(<<PlainKey, OtherKey>>,
            <<Leaf(StrV(<<"a", "b">>)),
              List(<<Leaf(StrV(<<"c">>)), Leaf(StrV(<<"a", "b">>))>>)>>)]
ListDoc ==
    walk_and_encrypt_root(ListBase, "K1", NoStash, 0,
                          DEFAULT_UNENCRYPTED_SUFFIX).doc

\* a document of the same format whose leaf is the token of the integer 0,
\* as an implementation that encrypts zero values writes it
ZeroDoc ==
    [GoodDoc EXCEPT
        !.data = Map(<<PlainKey>>,
                     <<Leaf(TokV(Seal("K1", 0, key_aad(<<>>, PlainKey),
                                      <<"0">>, "int")))>>),
        !.sops.mac = TokV(Seal("K1", 1, GoodDoc.sops.lastmodified,
                               HexDigest(<<"0">>), "str"))]

\* documents of older formats.  Doc09 is of version 0.9: typed tokens, the
\* AAD of a leaf being the keys of its mapping run together.  Doc07 is of
\* version 0.7: the same AAD and tokens without a type.  ClearDoc07 is a
\* document of version 0.7 in clear with its `sops` branch, as decrypt mode
\* with --show-master-keys leaves it.
Doc09 ==
    [GoodDoc EXCEPT
        !.data = SetAt(@, <<1>>,
                       Leaf(TokV(Seal("K1", 0, PlainKey, <<"a", "b">>,
                                      "str")))),
        !.sops.version = <<0, 9>>]
Doc07 ==
    [Doc09 EXCEPT
        !.data = SetAt(@, <<1>>,
                       Leaf(TokV([Seal("K1", 0, PlainKey, <<"a", "b">>, "str")
                                    EXCEPT !.fmt = "untyped"]))),
        !.sops.mac = TokV([GoodDoc.sops.mac.tok EXCEPT !.fmt = "untyped"]),
        !.sops.version = <<0, 7>>]
ClearDoc07 == [ClearBase EXCEPT !.sops.version = <<0, 7>>]

StoredDocs ==
    {GoodDoc, NoMacDoc, BadMacDoc, BadLeafDoc, NoMacBadLeafDoc, ForgedMacDoc,
     NoKeyDoc, PgpDoc, PlainDoc, ListDoc, ZeroDoc, Doc09, Doc07, ClearDoc07}

Targets ==
    {NoFile}
    \cup {[exists |-> TRUE, content |-> DocContent(d), writes |-> 0]
          : d \in StoredDocs}

Args(m, ig, s, ip, k, ar) ==
    [mode |-> m, ignore_mac |-> ig, show_master_keys |-> s, in_place |-> ip,
     kms_arns |-> k, pgp_fps |-> <<>>,
     add_kms |-> ar[1], rm_kms |-> ar[2], add_pgp |-> <<>>, rm_pgp |-> <<>>]

\* --add-kms and --rm-kms as given
AddRm == {<<<<>>, <<>>>>, <<<<"M2">>, <<>>>>, <<<<>>, <<"M1">>>>}

ArgSets ==
    {Args("encrypt", FALSE, FALSE, ip, k, <<<<>>, <<>>>>)
        : ip \in BOOLEAN, k \in {<<>>, <<"M2">>}}
    \cup {Args("decrypt", ig, s, ip, <<>>, <<<<>>, <<>>>>)
        : ig \in BOOLEAN, s \in BOOLEAN, ip \in BOOLEAN}
    \cup {Args("rotate", ig, FALSE, FALSE, k, ar)
        : ig \in BOOLEAN, k \in {<<>>, <<"M2">>}, ar \in AddRm}
    \cup {Args("edit", ig, s, FALSE, k, ar)
        : ig \in BOOLEAN, s \in BOOLEAN, k \in {<<>>, <<"M2">>},
          ar \in AddRm}

\* the path given on the command line, and the `.sops.yaml` files the
\* search may find: none, or one whose catch-all rule names a KMS key
TargetPath == Path(<<"f">>)
RuleCfg == Cfg(TRUE, <<Rule(FALSE, <<>>, <<"M3">>, <<>>)>>)

Envs ==
    {[editor |-> ed, kms_ok |-> ko, pgp_ok |-> po, cfgs |-> cf]
        : ed \in BOOLEAN, ko \in BOOLEAN, po \in BOOLEAN,
          cf \in {<<>>, <<RuleCfg>>}}

NewKey == <<"n">>

\* the sequences at the top of a document, each with one more element whose
\* value is v
WithElement(data, v) ==
    {[data EXCEPT !.items[j].items = Append(@, Leaf(v))]
        : j \in {i \in 1..Len(data.items) : data.items[i].t = "list"}}

\* the document with one more mapping key at its end, of value v
WithKey(data, v) ==
    [data EXCEPT !.keys = Append(@, NewKey), !.items = Append(@, Leaf(v))]

\* a `sops` branch typed by the user, naming a master key of their own
UserSops ==
    [NewSops(DEFAULT_UNENCRYPTED_SUFFIX) EXCEPT
        !.haskms = TRUE, !.kms = <<KmsEntry("M3")>>]

\* what the user may leave in the temp file, whose first content was c
EditorWrites(c) ==
    {c, [c EXCEPT !.ws = 1], InvalidContent, NullContent,
     DocContent([c.doc EXCEPT !.sops = UserSops]),
     DocContent([c.doc EXCEPT !.data = SetAt(@, <<1>>,
                                             Leaf(StrV(<<"z">>)))])}
    \cup {DocContent([c.doc EXCEPT !.data = d])
          : d \in WithElement(c.doc.data, StrV(<<"a", "b">>))
                  \cup WithElement(c.doc.data, StrV(<<"z">>))
                  \cup {WithKey(c.doc.data, StrV(<<"a", "b">>))}}
    \cup (IF c.doc.sops.absent THEN {}
          ELSE {DocContent(pop_sops(c.doc)),
                DocContent([c.doc EXCEPT !.sops.haskms = FALSE,
                                         !.sops.kms = <<>>,
                                         !.sops.haspgp = FALSE,
                                         !.sops.pgp = <<>>])})

\* the variables of the engine's own specification, unused here
CryptoIdle ==
    /\ orig = EmptyDoc /\ tamper = NoTamper /\ res = NoRes
    /\ ignoreMac = FALSE
    /\ call = "" /\ ret = ""

CryptoUnchanged ==
    UNCHANGED <<orig, stored, tamper, res, ignoreMac, call, ret>>

----------------------------------------------------------------------------
(* main(): one invocation of the program.  The process blocks where it     *)
(* runs the editor and where it reads from the terminal; between these     *)
(* points it runs without interruption.                                    *)

MainInit ==
    /\ pc = "start"
    /\ args \in ArgSets
    /\ env \in Envs
    /\ target \in Targets
    /\ tmpfile = NoFile
    /\ stdout = NoFile
    /\ tree = EmptyDoc
    /\ key = ""
    /\ need_key = FALSE
    /\ existing_file = FALSE
    /\ edits = 0
    /\ stash = [sops |-> EmptySops, st |-> NoStash]
    /\ tmphash = NoHash
    /\ exitcode = -1
    /\ INPUT_VERSION = VERSION
    /\ UNENCRYPTED_SUFFIX = DEFAULT_UNENCRYPTED_SUFFIX
    /\ ivctr = FirstIV
    /\ stored = target.content.doc   \* the document found at start
    /\ CryptoIdle

\* sys.exit, or an exception nobody catches
Exit(err) ==
    /\ pc' = "exit"
    /\ exitcode' = err.exit

MainFrame == UNCHANGED <<args, env>> /\ CryptoUnchanged

AddOrRemove(a) ==
    a.add_kms # <<>> \/ a.add_pgp # <<>> \/ a.rm_kms # <<>>
    \/ a.rm_pgp # <<>>

\* the checks of main() on a file that does not exist
new_file_check(a, existing) ==
    IF existing THEN OK
    ELSE IF AddOrRemove(a) THEN Panic(49)
    ELSE IF a.mode \in {"encrypt", "decrypt"} THEN Panic(100)
    ELSE OK

\* main() up to the dispatch on the mode
Initialize ==
    /\ pc = "start"
    /\ LET r == initialize_tree(target, TargetPath, args.kms_arns,
                                args.pgp_fps, NoLoc, env.cfgs,
                                INPUT_VERSION, UNENCRYPTED_SUFFIX)
       IN  /\ tree' = r.tree
           /\ need_key' = r.need_key
           /\ existing_file' = r.existing_file
           /\ INPUT_VERSION' = r.version
           /\ UNENCRYPTED_SUFFIX' = r.suffix
           /\ IF r.err # OK THEN Exit(r.err)
              ELSE IF new_file_check(args, r.existing_file) # OK
              THEN Exit(new_file_check(args, r.existing_file))
              ELSE pc' = "ready" /\ exitcode' = exitcode
    /\ UNCHANGED <<key, ivctr, edits, target, tmpfile, stdout, stash,
                   tmphash>>
    /\ MainFrame

\* a mode that ends at once: its outcome r, and the document written to
\* the target path or to standard output
RunMode(r, in_place) ==
    /\ key' = r.key
    /\ ivctr' = r.iv
    /\ Exit(r.err)
    /\ IF r.err # OK THEN UNCHANGED <<tree, target, stdout>>
       ELSE /\ tree' = r.doc
            /\ IF in_place
               THEN target' = write_file(target, r.doc)
                    /\ UNCHANGED stdout
               ELSE stdout' = write_file(stdout, r.doc)
                    /\ UNCHANGED target
    /\ UNCHANGED <<INPUT_VERSION, UNENCRYPTED_SUFFIX, need_key,
                   existing_file, edits, tmpfile, stash, tmphash>>
    /\ MainFrame

EncryptMode ==
    /\ pc = "ready" /\ args.mode = "encrypt"
    /\ RunMode(encrypt_mode(tree, need_key, FreshKey, env, ivctr,
                            UNENCRYPTED_SUFFIX),
               args.in_place)

DecryptMode ==
    /\ pc = "ready" /\ args.mode = "decrypt"
    /\ RunMode(decrypt_mode(tree, FreshKey, args, env, ivctr, INPUT_VERSION,
                            UNENCRYPTED_SUFFIX),
               args.in_place)

RotateMode ==
    /\ pc = "ready" /\ args.mode = "rotate"
    /\ RunMode(rotate_mode(tree, FreshKey, args, env, ivctr, INPUT_VERSION,
                           UNENCRYPTED_SUFFIX),
               TRUE)

\* edit mode: the key, the stash, the decrypted tree in a temp file
EditPrepare ==
    /\ pc = "ready" /\ args.mode = "edit"
    /\ LET r == edit_prepare(tree, need_key, existing_file, FreshKey, args,
                             env, INPUT_VERSION, UNENCRYPTED_SUFFIX)
       IN  /\ key' = r.key
           /\ IF r.err # OK
              THEN /\ Exit(r.err)
                   /\ UNCHANGED <<tree, stash, tmpfile, tmphash>>
              ELSE /\ tree' = r.doc
                   /\ stash' = [sops |-> r.sops, st |-> r.st]
                   /\ tmpfile' = write_file(tmpfile, r.doc)
                   /\ tmphash' = get_file_hash(write_file(tmpfile, r.doc))
                   /\ pc' = "editor"
                   /\ exitcode' = exitcode
    /\ UNCHANGED <<INPUT_VERSION, UNENCRYPTED_SUFFIX, ivctr, need_key,
                   existing_file, edits, target, stdout>>
    /\ MainFrame

EditFrame ==
    /\ UNCHANGED <<key, INPUT_VERSION, UNENCRYPTED_SUFFIX, need_key,
                   existing_file, stash, tmphash, stdout>>
    /\ MainFrame

\* run_editor(tmppath): the user leaves something in the temp file, or no
\* editor is found
RunEditor ==
    /\ pc = "editor"
    /\ IF ~env.editor
       THEN Exit(Panic(201)) /\ UNCHANGED <<tmpfile, edits>>
       ELSE /\ edits < MaxEdits
            /\ edits' = edits + 1
            /\ \E c \in EditorWrites(tmphash.sha256) :
                  tmpfile' = [tmpfile EXCEPT !.content = c,
                                             !.writes = @ + 1]
            /\ pc' = "validate"
            /\ exitcode' = exitcode
    /\ UNCHANGED <<tree, ivctr, target>>
    /\ EditFrame

\* the rest of the loop body: validate_syntax, load_file_into_tree,
\* check_master_keys
Validate ==
    /\ pc = "validate"
    /\ IF ~validate_syntax(tmpfile)
       THEN pc' = "prompt_syntax" /\ UNCHANGED <<tree, exitcode>>
       ELSE LET t == load_file_into_tree(tmpfile, ~args.show_master_keys,
                                         stash.sops)
            IN  IF t.err # OK THEN Exit(t.err) /\ UNCHANGED tree
                ELSE /\ tree' = t.tree
                     /\ IF t.tree.sops.absent THEN Exit(Raise("KeyError"))
                        ELSE IF check_master_keys(t.tree)
                        THEN pc' = "finalize" /\ exitcode' = exitcode
                        ELSE pc' = "prompt_keys" /\ exitcode' = exitcode
    /\ UNCHANGED <<ivctr, edits, target, tmpfile>>
    /\ EditFrame

\* raw_input() after an error message: a line, ctrl+c, or end of input
Prompt ==
    /\ pc \in {"prompt_syntax", "prompt_keys"}
    /\ \E answer \in {"line", "ctrl+c", "eof"} :
        CASE answer = "line" ->
                pc' = "editor" /\ UNCHANGED <<tmpfile, exitcode>>
          [] answer = "ctrl+c" ->
                tmpfile' = remove(tmpfile) /\ Exit(Panic(85))
          [] OTHER ->
                Exit(Raise("EOFError")) /\ UNCHANGED tmpfile
    /\ UNCHANGED <<tree, ivctr, edits, target>>
    /\ EditFrame

\* after the loop: nothing changed, or encrypt, settle and write
Finalize ==
    /\ pc = "finalize"
    /\ IF tmphash = get_file_hash(tmpfile)
       THEN /\ tmpfile' = remove(tmpfile)
            /\ Exit(Panic(200))
            /\ UNCHANGED <<tree, ivctr, target>>
       ELSE LET r == edit_finalize(tree, key, stash.st, args, env, ivctr,
                                   UNENCRYPTED_SUFFIX)
            IN  /\ tree' = r.doc
                /\ ivctr' = r.iv
                /\ tmpfile' = remove(tmpfile)
                /\ target' = write_file(target, r.doc)
                /\ Exit(OK)
    /\ UNCHANGED edits
    /\ EditFrame

MainNext ==
    \/ Initialize
    \/ EncryptMode
    \/ DecryptMode
    \/ RotateMode
    \/ EditPrepare
    \/ RunEditor
    \/ Validate
    \/ Prompt
    \/ Finalize

SpecMain == MainInit /\ [][MainNext]_vars

----------------------------------------------------------------------------
(* Properties of main(), checked under SpecMain *)

Exited == pc = "exit"
NothingWritten ==
    target.writes = 0 /\ tmpfile.writes = 0 /\ stdout.writes = 0
MacModes == {"decrypt", "rotate", "edit"}

\* C7: MAC error outcomes.  In decrypt, rotate and edit modes without
\* --ignore-mac, a document without `mac` ends in exit code 52 and one whose
\* recomputed digest differs from the decrypted mac in exit code 51 (the
\* data key recovered, the leaves decrypted), and whatever else is wrong
\* with such a document the process ends non-zero; in each case nothing
\* was written to the target, a temp file or standard output.  With
\* --ignore-mac neither check is made and decryption proceeds.
C7_MacOutcomes ==
    (Exited /\ args.mode \in MacModes /\ existing_file)
    => /\ (~args.ignore_mac /\ env.kms_ok /\ stored = NoMacDoc)
            => exitcode = 52
       /\ (~args.ignore_mac /\ env.kms_ok /\ stored = BadMacDoc)
            => exitcode = 51
       /\ (~args.ignore_mac
           /\ stored \in {NoMacDoc, NoMacBadLeafDoc, BadMacDoc})
            => (exitcode # 0 /\ NothingWritten)
       /\ exitcode \in {51, 52} => (~args.ignore_mac /\ NothingWritten)
       /\ (args.ignore_mac /\ env.kms_ok
           /\ stored \in {NoMacDoc, BadMacDoc})
            => CASE args.mode = "decrypt" ->
                        exitcode = 0 /\ stdout.writes + target.writes = 1
                 [] args.mode = "rotate" ->
                        exitcode = 0 /\ target.writes = 1
                 [] OTHER -> tmpfile.writes > 0

\* a document with a wrong digest ended an edit session with 51
C7_Witness ==
    /\ Exited /\ args.mode = "edit" /\ stored = BadMacDoc
    /\ exitcode = 51 /\ NothingWritten

\* some clear leaf or some `enc` of the document shows data key k
ShowsKey(doc, k) ==
    \/ \E p \in LeafPaths(doc.data) :
          /\ ~IsToken(NodeAt(doc.data, p).val)
          /\ \E j \in 1..Len(NodeAt(doc.data, p).val.s) :
                NodeAt(doc.data, p).val.s[j] = k
    \/ \E i \in 1..Len(doc.sops.kms) :
          doc.sops.kms[i].enc.k = k /\ doc.sops.kms[i].enc.form # "wrap"
    \/ \E i \in 1..Len(doc.sops.pgp) :
          doc.sops.pgp[i].enc.k = k /\ doc.sops.pgp[i].enc.form # "wrap"

\* C8: the data encryption key is never persisted in clear.  In every
\* mode and at every point, neither the target file nor the temp file nor
\* standard output holds a data key other than wrapped in an `enc`.
C8_KeyNeverInClear ==
    \A k \in DataKeys, f \in {target, tmpfile, stdout} :
        ~ShowsKey(f.content.doc, k)

\* a document was written whose master-key entry wraps the new data key
C8_Witness ==
    /\ Exited /\ exitcode = 0 /\ target.writes = 1
    /\ key = FreshKey
    /\ \E i \in 1..Len(target.content.doc.sops.kms) :
          target.content.doc.sops.kms[i].enc
            = Wrap(target.content.doc.sops.kms[i].arn, FreshKey)

\* C9: no-op edit.  When the edit loop ends with the temp file holding the
\* bytes written before the first editor run, the process removes the temp
\* file and exits with code 200, and the target path is neither created
\* nor written.
C9_NoOpEdit ==
    [][(pc = "finalize" /\ tmpfile.content = tmphash.sha256)
       => /\ pc' = "exit" /\ exitcode' = 200
          /\ ~tmpfile'.exists
          /\ target' = target /\ target.writes = 0
          /\ target.exists = existing_file]_vars

\* an edit session on a target that did not exist ended with 200
C9_Witness ==
    /\ Exited /\ exitcode = 200 /\ args.mode = "edit"
    /\ ~existing_file /\ ~target.exists /\ target.writes = 0
    /\ tmpfile.writes > 1 /\ ~tmpfile.exists

\* C10: temp-file cleanup.  Once edit mode has created its temp file, the
\* temp file does not exist when the process has terminated, on every
\* exit path.
C10_TempRemoved ==
    (Exited /\ tmpfile.writes > 0) => ~tmpfile.exists

----------------------------------------------------------------------------
(* Properties of the checks main() makes before it dispatches on the mode *)

\* the target path held no file when initialize_tree looked
TargetWasMissing == pc # "start" /\ ~existing_file

NotPlainEdit == args.mode \in {"encrypt", "decrypt", "rotate"} \/ AddOrRemove(args)

NoKeySupplied == args.kms_arns = <<>> /\ args.pgp_fps = <<>>

\* C11: nonexistent target.  With -e, -d, -r or an add/remove
\* flag on a target that does not exist the process exits non-zero, with
\* 49 when an add/remove flag is given and 100 for -e/-d, and the target
\* is never created.
C11_NonexistentFatal ==
    (TargetWasMissing /\ NotPlainEdit) =>
        /\ ~target.exists
        /\ pc # "exit" => pc = "ready"
        /\ pc = "exit" =>
            /\ exitcode > 0
            /\ AddOrRemove(args) => exitcode = 49
            /\ (~AddOrRemove(args) /\ args.mode \in {"encrypt", "decrypt"})
                => exitcode = 100

\* neither the command line, nor the environment, nor a creation rule
\* names a master key
NothingSupplied ==
    NoKeySupplied /\ ~find_config_for_file(TargetPath, NoLoc, env.cfgs).found

\* the tree that initialize_tree starts from holds no wrapped data key
NeedsNewKey ==
    ~existing_file \/ ~(has_kms_key(stored.sops) \/ has_pgp_key(stored.sops))

\* C12: no master key configured.  Whenever a tree needs a new data key,
\* for an existing file or one that does not exist yet, and no KMS ARN or
\* PGP fingerprint is supplied, the process ends with exit code 111 before
\* a data key is generated and before anything is written.
C12_NoMasterKey ==
    (pc # "start" /\ NeedsNewKey /\ NothingSupplied) =>
        /\ pc = "exit" /\ exitcode = 111
        /\ key = "" /\ NothingWritten

----------------------------------------------------------------------------
(* The functions of the module called on their own, as the tests call      *)
(* them: `call` holds the function's name and arguments, `ret` its result. *)

\* the variables of the other specifications, unused here
LibIdle ==
    /\ tree = EmptyDoc /\ key = "" /\ ivctr = 0
    /\ INPUT_VERSION = VERSION
    /\ UNENCRYPTED_SUFFIX = DEFAULT_UNENCRYPTED_SUFFIX
    /\ orig = EmptyDoc /\ stored = EmptyDoc /\ tamper = NoTamper
    /\ res = NoRes /\ ignoreMac = FALSE
    /\ args = "" /\ env = "" /\ need_key = FALSE /\ existing_file = FALSE
    /\ edits = 0 /\ target = "" /\ tmpfile = "" /\ stdout = ""
    /\ stash = NoStash /\ tmphash = "" /\ exitcode = -1

LibUnchanged ==
    UNCHANGED <<tree, key, ivctr, INPUT_VERSION, UNENCRYPTED_SUFFIX, orig,
                stored, tamper, res, ignoreMac, args, env, need_key,
                existing_file, edits, target, tmpfile, stdout, stash,
                tmphash, exitcode, call>>

Called(f) == pc = "called" /\ call.fn = f
Returned(f) == pc = "returned" /\ call.fn = f
Return(r) == ret' = r /\ pc' = "returned" /\ LibUnchanged

MaxEntries == 2   \* longest kms or pgp list in an input `sops` branch

\* entries of a kms list: a null item, entries with and without arn and enc
KmsEntries ==
    {NullKms, KmsEntry(""), KmsEntry("M1"),
     [KmsEntry("M1") EXCEPT !.enc = Wrap("M1", "K1")],
     [KmsEntry("M2") EXCEPT !.enc = Wrap("M2", "K1")],
     [KmsEntry("") EXCEPT !.enc = Wrap("M1", "K1")]}
PgpEntries ==
    {NullPgp, PgpEntry("P1"),
     [PgpEntry("P1") EXCEPT !.enc = Wrap("P1", "K1")],
     [PgpEntry("") EXCEPT !.enc = Wrap("P1", "K1")]}

SeqsUpTo(S, n) == UNION {[1..l -> S] : l \in 0..n}

\* `sops` branches: absent, or with the kms and pgp lists given or absent
SopsWith(kms, pgp) ==
    [NewSops(DEFAULT_UNENCRYPTED_SUFFIX) EXCEPT
        !.haskms = kms.has, !.kms = kms.list,
        !.haspgp = pgp.has, !.pgp = pgp.list]
KmsLists ==
    {[has |-> FALSE, list |-> <<>>]}
    \cup {[has |-> TRUE, list |-> l] : l \in SeqsUpTo(KmsEntries, MaxEntries)}
PgpLists ==
    {[has |-> FALSE, list |-> <<>>]}
    \cup {[has |-> TRUE, list |-> l] : l \in SeqsUpTo(PgpEntries, 1)}
SopsBranches ==
    {[EmptySops EXCEPT !.absent = TRUE]}
    \cup {SopsWith(k, g) : k \in KmsLists, g \in PgpLists}

VerifyCalls ==
    {[fn |-> "verify_or_create_sops_branch",
      tree |-> [data |-> Map(<<>>, <<>>), sops |-> s],
      kms_arns |-> k, pgp_fps |-> g, path |-> pa, cfgs |-> cf]
        : s \in SopsBranches, k \in {<<>>, <<"M3">>},
          g \in {<<>>, <<"P3">>}, pa \in {TargetPath, NonePath},
          cf \in {<<>>, <<RuleCfg>>}}

VerifyOrCreate ==
    /\ Called("verify_or_create_sops_branch")
    /\ Return(verify_or_create_sops_branch(
                  call.tree, call.kms_arns, call.pgp_fps, call.path, NoLoc,
                  call.cfgs, DEFAULT_UNENCRYPTED_SUFFIX))

\* trees whose entries all have their arn or fp, and the strings given to
\* --add-kms and --add-pgp, split at the commas
KeyedKms == {e \in KmsEntries : e.null \/ e.arn # ""}
KeyedPgp == {e \in PgpEntries : e.null \/ e.fp # ""}
KeyedSops ==
    {SopsWith(k, g) :
        k \in {[has |-> FALSE, list |-> <<>>]}
              \cup {[has |-> TRUE, list |-> l]
                      : l \in SeqsUpTo(KeyedKms, MaxEntries)},
        g \in {[has |-> FALSE, list |-> <<>>]}
              \cup {[has |-> TRUE, list |-> l] : l \in SeqsUpTo(KeyedPgp, 1)}}
NewKms == SeqsUpTo({"M1", "M3", RoleArn}, MaxEntries)
NewPgp == SeqsUpTo({"P1", "P3"}, 2)

AddCalls ==
    {[fn |-> "add_new_master_keys",
      tree |-> [data |-> Map(<<>>, <<>>), sops |-> s],
      new_kms |-> k, new_pgp |-> g]
        : s \in KeyedSops, k \in NewKms, g \in NewPgp}

AddNewMasterKeys ==
    /\ Called("add_new_master_keys")
    /\ Return(add_new_master_keys(call.tree, call.new_kms, call.new_pgp))

RemoveCalls ==
    {[fn |-> "remove_master_keys",
      tree |-> [data |-> Map(<<>>, <<>>), sops |-> s],
      rm_kms |-> k, rm_pgp |-> g]
        : s \in KeyedSops, k \in SeqsUpTo({"M1", RoleArn}, MaxEntries),
          g \in SeqsUpTo({"P1"}, 1)}

RemoveMasterKeys ==
    /\ Called("remove_master_keys")
    /\ Return(remove_master_keys(call.tree, call.rm_kms, call.rm_pgp))

\* entries whose unwrap succeeds, and entries that fail in each way
StoredKms ==
    {NullKms, KmsEntry("M1"),
     [KmsEntry("") EXCEPT !.enc = Wrap("M1", "K1")],
     [KmsEntry(BadArn) EXCEPT !.enc = Wrap("M1", "K1")],
     [KmsEntry("M1") EXCEPT !.enc = Wrap("M1", "K1"), !.role = DeniedRole],
     [KmsEntry("M1") EXCEPT !.enc = [form |-> "junk", by |-> "", k |-> ""]],
     [KmsEntry("M1") EXCEPT !.enc = Wrap("M1", "K1")],
     [KmsEntry("M2") EXCEPT !.enc = Wrap("M2", "K2")],
     [KmsEntry("M1") EXCEPT !.enc = Wrap("M1", ShortKey)]}
StoredPgp ==
    {NullPgp, PgpEntry("P1"),
     [PgpEntry("") EXCEPT !.enc = Wrap("P1", "K1")],
     [PgpEntry("P1") EXCEPT !.enc = [form |-> "junk", by |-> "", k |-> ""]],
     [PgpEntry("P1") EXCEPT !.enc = Wrap("P1", "K3")],
     [PgpEntry("P2") EXCEPT !.enc = Wrap("P2", "K4")],
     [PgpEntry("P1") EXCEPT !.enc = Wrap("P1", ShortKey)]}

GetKeyCalls ==
    {[fn |-> "get_key",
      tree |-> [data |-> Map(<<>>, <<>>), sops |-> SopsWith(k, g)],
      e |-> [kms_ok |-> ko, pgp_ok |-> po]]
        : k \in {[has |-> FALSE, list |-> <<>>]}
                \cup {[has |-> TRUE, list |-> l]
                        : l \in SeqsUpTo(StoredKms, MaxEntries)},
          g \in {[has |-> FALSE, list |-> <<>>]}
                \cup {[has |-> TRUE, list |-> l]
                        : l \in SeqsUpTo(StoredPgp, 2)},
          ko \in BOOLEAN, po \in BOOLEAN}

\* get_key(tree) for a tree that does not need a new key
GetKey ==
    /\ Called("get_key")
    /\ Return(get_key(call.tree, FALSE, FreshKey, call.e))

MaxComponent == 2    \* largest component of a version
MaxComponents == 3   \* most components of a version

\* version strings, as split at the dots and converted by int()
Versions ==
    UNION {[1..l -> 1..MaxComponent] : l \in 1..MaxComponents}

NewerCalls ==
    {[fn |-> "A_is_newer_than_B", A |-> a, B |-> b]
        : a \in Versions, b \in Versions}

IsNewer ==
    /\ Called("A_is_newer_than_B")
    /\ Return([val |-> A_is_newer_than_B(call.A, call.B)])

\* path.split(sep, -1)
RECURSIVE split(_, _, _)
split(s, sep, cur) ==
    IF s = <<>> THEN <<cur>>
    ELSE IF s[1] = sep THEN <<cur>> \o split(Tail(s), sep, <<>>)
    ELSE split(Tail(s), sep, Append(cur, s[1]))

\* comp.replace(ch, '', count)
RECURSIVE replace(_, _, _)
replace(s, ch, count) ==
    IF s = <<>> \/ count = 0 THEN s
    ELSE IF s[1] = ch THEN replace(Tail(s), ch, count - 1)
    ELSE <<s[1]>> \o replace(Tail(s), ch, count)

Got(node) == [err |-> OK, node |-> node]
Missed(err) == [err |-> err, node |-> Leaf(NoneV)]

\* tree[n] of Python, n an int
getitem_int(node, n) ==
    CASE node.t = "list" ->
            IF n < Len(node.items) THEN Got(node.items[n + 1])
            ELSE Missed(Raise("IndexError"))
      [] node.t = "map" -> Missed(Raise("KeyError"))
      [] OTHER ->
            IF node.val.kind \in {"str", "bytes"}
            THEN IF n < Len(node.val.s)
                 THEN Got(Leaf([node.val EXCEPT !.s = <<node.val.s[n + 1]>>]))
                 ELSE Missed(Raise("IndexError"))
            ELSE Missed(Raise("TypeError"))

\* tree[k] of Python, k a str
getitem_str(node, k) ==
    IF node.t = "map"
    THEN IF \E j \in 1..Len(node.keys) : node.keys[j] = k
         THEN Got(node.items[CHOOSE j \in 1..Len(node.keys)
                                 : node.keys[j] = k])
         ELSE Missed(Raise("KeyError"))
    ELSE Missed(Raise("TypeError"))

\* the component between its bracket and the closing one, quotes removed
unquoted(comp) ==
    replace(replace(SubSeq(comp, 1, Len(comp) - 1), "\"", 2), "'", 2)

\* one turn of the loop of truncate_tree on a component that is closed
subtree(node, comp) ==
    IF AllDigits(unquoted(comp))
    THEN getitem_int(node, DigitsVal(unquoted(comp)))
    ELSE getitem_str(node, unquoted(comp))

RECURSIVE truncate_loop(_, _, _)
truncate_loop(node, comps, i) ==
    IF i > Len(comps) THEN Got(node)
    ELSE IF comps[i] = <<>> THEN truncate_loop(node, comps, i + 1)
    ELSE IF comps[i][Len(comps[i])] # "]" THEN Missed(Panic(91))
    ELSE IF subtree(node, comps[i]).err # OK THEN subtree(node, comps[i])
    ELSE truncate_loop(subtree(node, comps[i]).node, comps, i + 1)

truncate_tree(node, path) == truncate_loop(node, split(path, "[", <<>>), 1)

MaxPath == 2   \* most components of a tree path

NumKey == <<"1">>

\* a path component as the user means it: a quoted mapping key, or an
\* unquoted sequence index
PathComps ==
    {[quote |-> q, text |-> k] : q \in {"\"", "'"}, k \in {PlainKey, NumKey}}
    \cup {[quote |-> "", text |-> <<d>>] : d \in {"0", "1"}}

Bracketed(c) ==
    <<"[">> \o (IF c.quote = "" THEN <<>> ELSE <<c.quote>>) \o c.text
    \o (IF c.quote = "" THEN <<>> ELSE <<c.quote>>) \o <<"]">>

RECURSIVE PathOf(_)
PathOf(cs) == IF cs = <<>> THEN <<>> ELSE Bracketed(cs[1]) \o PathOf(Tail(cs))

\* a path as typed: closed, its last bracket left unclosed, or one more
\* bracket opened at its end
Typed(cs, shape) ==
    CASE shape = "closed" -> PathOf(cs)
      [] shape = "cut"    -> SubSeq(PathOf(cs), 1, Len(PathOf(cs)) - 1)
      [] shape = "open"   -> PathOf(cs) \o <<"[">>

TruncInner ==
    {Leaf(StrV(<<"x">>)),
     List(<<Leaf(IntV(1)), Leaf(IntV(2))>>),
     Map(<<NumKey>>, <<Leaf(StrV(<<"w">>))>>),
     Map(<<PlainKey>>, <<Leaf(IntV(3))>>)}

TruncTrees ==
    {Map(<<k>>, <<n>>) : k \in {PlainKey, NumKey}, n \in TruncInner}
    \cup {Map(<<PlainKey, NumKey>>, <<n1, n2>>)
          : n1 \in TruncInner, n2 \in TruncInner}

TruncateCalls ==
    {[fn |-> "truncate_tree", tree |-> t, comps |-> cs, shape |-> sh,
      path |-> Typed(cs, sh)]
        : t \in TruncTrees, cs \in SeqsUpTo(PathComps, MaxPath) \ {<<>>},
          sh \in {"closed", "cut", "open"}}

TruncateTree ==
    /\ Called("truncate_tree")
    /\ Return(truncate_tree(call.tree, call.path))

MaxRules == 2   \* most creation rules of a configuration file

CreationRules ==
    {Rule(FALSE, <<>>, <<"M1">>, <<>>),
     Rule(TRUE, <<"f">>, <<"M2">>, <<>>),
     Rule(TRUE, <<"a">>, <<"M3">>, <<"F1">>),
     Rule(TRUE, <<"z">>, <<>>, <<"F2">>)}

ConfigFiles ==
    {BadCfg, NullCfg, Cfg(FALSE, <<>>)}
    \cup {Cfg(TRUE, rs) : rs \in SeqsUpTo(CreationRules, MaxRules)}

\* the configuration files from the current directory upwards
ConfigDirs ==
    {<<>>, <<NoCfg>>}
    \cup {<<f>> : f \in ConfigFiles} \cup {<<NoCfg, f>> : f \in ConfigFiles}

FindCalls ==
    {[fn |-> "find_config_for_file", filename |-> n, configloc |-> l,
      cfgs |-> d]
        : n \in {NonePath, Path(<<>>), Path(<<"f">>), Path(<<"a", "f">>)},
          l \in {NoLoc}, d \in ConfigDirs}
    \cup {[fn |-> "find_config_for_file", filename |-> n, configloc |-> l,
           cfgs |-> <<>>]
        : n \in {NonePath, Path(<<>>), Path(<<"f">>), Path(<<"a", "f">>)},
          l \in {Loc(f) : f \in ConfigFiles \cup {NoCfg}}}

FindConfigForFile ==
    /\ Called("find_config_for_file")
    /\ Return(find_config_for_file(call.filename, call.configloc, call.cfgs))

MaxWrapped == 3   \* longest kms list handed to a wrapping operation

\* entries before a wrap: null, wrapped under the previous data key, not
\* wrapped yet, and entries whose wrap fails (no arn, no client)
WrapKms ==
    {NullKms,
     [KmsEntry("M1") EXCEPT !.enc = Wrap("M1", "K1"),
                            !.created_at = <<"t", "0">>],
     KmsEntry("M2"), KmsEntry(""), KmsEntry(BadArn)}
WrapPgp ==
    {NullPgp,
     [PgpEntry("P1") EXCEPT !.enc = Wrap("P1", "K1"),
                            !.created_at = <<"t", "0">>],
     PgpEntry("P3"), PgpEntry("")}

WrapCalls ==
    {[fn |-> f,
      tree |-> [data |-> Map(<<>>, <<>>), sops |-> SopsWith(k, g)],
      e |-> [kms_ok |-> ko, pgp_ok |-> po]]
        : f \in {"get_key_new", "update_master_keys"},
          k \in {[has |-> FALSE, list |-> <<>>]}
                \cup {[has |-> TRUE, list |-> l]
                        : l \in SeqsUpTo(WrapKms, MaxWrapped)},
          g \in {[has |-> FALSE, list |-> <<>>]}
                \cup {[has |-> TRUE, list |-> l]
                        : l \in SeqsUpTo(WrapPgp, 1)},
          ko \in BOOLEAN, po \in BOOLEAN}

\* trees with a stored `version`, or without one
VersionedCalls ==
    {[fn |-> "update_master_keys",
      tree |-> [data |-> Map(<<>>, <<>>),
                sops |-> [EmptySops EXCEPT !.hasversion = TRUE,
                                           !.version = v]],
      e |-> [kms_ok |-> TRUE, pgp_ok |-> TRUE]]
        : v \in Versions \cup {VERSION}}
    \cup {[fn |-> "update_master_keys",
           tree |-> [data |-> Map(<<>>, <<>>), sops |-> EmptySops],
           e |-> [kms_ok |-> TRUE, pgp_ok |-> TRUE]]}

\* get_key(tree, True)
GetNewKey ==
    /\ Called("get_key_new")
    /\ Return(get_key(call.tree, TRUE, FreshKey, call.e))

\* update_master_keys(tree, key), with the data key the tree is under
UpdateMasterKeys ==
    /\ Called("update_master_keys")
    /\ Return([tree |-> update_master_keys(call.tree, "K1", call.e,
                                           DEFAULT_UNENCRYPTED_SUFFIX),
               err |-> OK])

LibInit ==
    /\ pc = "called"
    /\ ret = ""
    /\ LibIdle
    /\ \/ call \in VerifyCalls
       \/ call \in NewerCalls
       \/ call \in TruncateCalls
       \/ call \in FindCalls
       \/ call \in WrapCalls
       \/ call \in VersionedCalls
       \/ call \in GetKeyCalls
       \/ call \in AddCalls
       \/ call \in RemoveCalls

LibNext ==
    \/ VerifyOrCreate
    \/ AddNewMasterKeys
    \/ RemoveMasterKeys
    \/ GetKey
    \/ IsNewer
    \/ TruncateTree
    \/ FindConfigForFile
    \/ GetNewKey
    \/ UpdateMasterKeys

SpecLib == LibInit /\ [][LibNext]_vars

----------------------------------------------------------------------------
(* Properties of the functions, checked under SpecLib *)

\* at least one kms entry has a non-empty arn and a non-empty enc, or at
\* least one pgp entry has a non-empty fp and a non-empty enc
HoldsKey(sops) ==
    \/ /\ ~sops.absent /\ sops.haskms
       /\ \E i \in 1..Len(sops.kms) :
            ~sops.kms[i].null /\ sops.kms[i].arn # ""
            /\ sops.kms[i].enc # NoEnc
    \/ /\ ~sops.absent /\ sops.haspgp
       /\ \E i \in 1..Len(sops.pgp) :
            ~sops.pgp[i].null /\ sops.pgp[i].fp # ""
            /\ sops.pgp[i].enc # NoEnc

\* C13: needs-new-key decision.  verify_or_create_sops_branch reports that
\* no new data key is needed if and only if a kms entry has a non-empty arn
\* and enc or a pgp entry has a non-empty fp and enc; the kms and pgp lists
\* are then left unchanged, whatever flags, environment or rules supply.
C13_NeedsNewKey ==
    Returned("verify_or_create_sops_branch") =>
        /\ (ret.err = OK /\ ~ret.need_key) <=> HoldsKey(call.tree.sops)
        /\ HoldsKey(call.tree.sops) =>
            /\ ret.tree.sops.haskms = call.tree.sops.haskms
            /\ ret.tree.sops.kms = call.tree.sops.kms
            /\ ret.tree.sops.haspgp = call.tree.sops.haspgp
            /\ ret.tree.sops.pgp = call.tree.sops.pgp

\* a tree that holds a key in its pgp list only was verified while a KMS
\* ARN was passed in
C13_Witness ==
    /\ Returned("verify_or_create_sops_branch")
    /\ HoldsKey(call.tree.sops) /\ ~has_kms_key(call.tree.sops)
    /\ call.kms_arns # <<>> /\ ~ret.need_key

\* the name an entry goes by: the arn of a kms entry, the fp of a pgp entry
Names(list, name(_)) ==
    {name(list[i]) : i \in {j \in 1..Len(list) : ~list[j].null}}
NoDuplicate(list, name(_)) ==
    \A i, j \in 1..Len(list) :
        (~list[i].null /\ ~list[j].null /\ name(list[i]) = name(list[j]))
        => i = j
ArnOf(e) == e.arn
FpOf(e) == e.fp

\* the positions of the parsed entries that are to be appended: the name is
\* not in the list and was not given earlier in the same string
ToAppend(old, new, name(_)) ==
    {j \in 1..Len(new) :
        /\ name(new[j]) \notin Names(old, name)
        /\ \A i \in 1..(j - 1) : name(new[i]) # name(new[j])}

\* list `now` is list `old` followed, in input order, by the entries of
\* `new` that are to be appended
Appended(old, now, new, name(_)) ==
    /\ Len(now) = Len(old) + Cardinality(ToAppend(old, new, name))
    /\ SubSeq(now, 1, Len(old)) = old
    /\ \A j \in ToAppend(old, new, name) :
        now[Len(old)
            + Cardinality({i \in ToAppend(old, new, name) : i <= j})]
        = new[j]

\* the entries that --add-kms names: the role is split off the arn
ParsedKms(items) ==
    [i \in 1..Len(items) |->
        IF items[i] = RoleArn
        THEN [KmsEntry("M2") EXCEPT !.role = "arn:aws:iam::R1"]
        ELSE KmsEntry(items[i])]
ParsedPgp(items) == [i \in 1..Len(items) |-> PgpEntry(items[i])]

Kept(list, names, name(_)) ==
    SelectSeq(list, LAMBDA e : e.null \/ name(e) \notin names)

\* C15: removing master keys.  After remove_master_keys no entry whose arn
\* or fp equals a requested one remains, and all other entries are kept
\* unchanged in their order, for every list content, repeated and empty
\* entries included; a list that was absent stays absent.
C15_RemoveExact ==
    Returned("remove_master_keys") =>
        /\ ret.sops.kms
           = Kept(call.tree.sops.kms,
                  Names(ParsedKms(call.rm_kms), ArnOf), ArnOf)
        /\ ret.sops.pgp
           = Kept(call.tree.sops.pgp,
                  Names(ParsedPgp(call.rm_pgp), FpOf), FpOf)
        /\ ret.sops.haskms = call.tree.sops.haskms
        /\ ret.sops.haspgp = call.tree.sops.haspgp

\* unwrapping the entry succeeds: it has its enc (and a kms entry its arn),
\* the ARN is well formed, the role can be assumed, the service answers
\* and accepts the ciphertext, and gpg gives 32 bytes
UnwrapsKms(entry, e) ==
    /\ ~entry.null /\ entry.arn # "" /\ entry.enc # NoEnc
    /\ entry.arn # BadArn /\ entry.role # DeniedRole
    /\ e.kms_ok /\ entry.enc.form = "wrap"
UnwrapsPgp(entry, e) ==
    /\ ~entry.null /\ entry.enc # NoEnc
    /\ e.pgp_ok /\ entry.enc.form = "wrap" /\ KeyLen(entry.enc.k) = 32

\* the positions of a list whose entry unwraps
GoodKms(sops, e) ==
    {i \in 1..Len(sops.kms) : sops.haskms /\ UnwrapsKms(sops.kms[i], e)}
GoodPgp(sops, e) ==
    {i \in 1..Len(sops.pgp) : sops.haspgp /\ UnwrapsPgp(sops.pgp[i], e)}
Least(S) == CHOOSE i \in S : \A j \in S : i <= j

\* C16: key unwrap order.  get_key for a tree that does not need a new key
\* returns the key of the first kms entry whose unwrap succeeds, else that
\* of the first pgp entry whose unwrap gives 32 bytes; a failing entry
\* never stops the search, and the process exits with 128 exactly when no
\* entry of either list succeeds.
C16_UnwrapOrder ==
    Returned("get_key") =>
        /\ GoodKms(call.tree.sops, call.e) # {}
            => /\ ret.err = OK
               /\ ret.key
                  = call.tree.sops.kms[Least(GoodKms(call.tree.sops,
                                                     call.e))].enc.k
        /\ (GoodKms(call.tree.sops, call.e) = {}
            /\ GoodPgp(call.tree.sops, call.e) # {})
            => /\ ret.err = OK
               /\ ret.key
                  = call.tree.sops.pgp[Least(GoodPgp(call.tree.sops,
                                                     call.e))].enc.k
        /\ ret.err = Panic(128)
            <=> (GoodKms(call.tree.sops, call.e) = {}
                 /\ GoodPgp(call.tree.sops, call.e) = {})
        /\ ret.err \in {OK, Panic(128)}
        /\ ret.tree = call.tree

\* the key came from the second pgp entry, after a kms entry and a pgp
\* entry had failed
C16_Witness ==
    /\ Returned("get_key")
    /\ Len(call.tree.sops.kms) > 0 /\ GoodKms(call.tree.sops, call.e) = {}
    /\ Len(call.tree.sops.pgp) = 2
    /\ GoodPgp(call.tree.sops, call.e) = {2}
    /\ ~call.tree.sops.pgp[1].null
    /\ ret.err = OK /\ ret.key = call.tree.sops.pgp[2].enc.k

\* the positions, among those both versions have, where they differ
Differ(A, B) ==
    {i \in 1..Len(A) : i <= Len(B) /\ A[i] # B[i]}

\* C17: version comparison.  A_is_newer_than_B(A, B) is true exactly when
\* A's component is the greater at the first position where the versions
\* differ, or all shared components are equal and A has more components.
C17_VersionOrder ==
    Returned("A_is_newer_than_B") =>
        ret.val
        = IF Differ(call.A, call.B) # {}
          THEN call.A[Least(Differ(call.A, call.B))]
               > call.B[Least(Differ(call.A, call.B))]
          ELSE Len(call.A) > Len(call.B)

\* indexing a node by a component as the user means it
Indexed(node, c) ==
    IF c.quote # ""
    THEN IF node.t = "map" THEN getitem_str(node, c.text)
         ELSE Missed(Raise("TypeError"))
    ELSE IF node.t = "list" THEN getitem_int(node, DigitsVal(c.text))
         ELSE Missed(Raise("TypeError"))

RECURSIVE Addressed(_, _)
Addressed(node, cs) ==
    IF cs = <<>> THEN Got(node)
    ELSE IF Indexed(node, cs[1]).err # OK THEN Indexed(node, cs[1])
    ELSE Addressed(Indexed(node, cs[1]).node, Tail(cs))

\* the components that come before the bracket left unclosed
Closed(cs, shape) ==
    IF shape = "cut" THEN SubSeq(cs, 1, Len(cs) - 1) ELSE cs

Named(cs) == \A j \in 1..Len(cs) : cs[j].text # NumKey

\* C18: subtree extraction.  For a path of closed bracketed components that
\* addresses an existing node (a quoted component indexing a mapping by that
\* string, an unquoted number indexing a sequence), truncate_tree returns
\* the node that successive indexing gives; a path with a bracket segment
\* that is not closed ends in exit code 91.
C18_Subtree ==
    (Returned("truncate_tree")
     /\ Addressed(call.tree, Closed(call.comps, call.shape)).err = OK)
        => IF call.shape = "closed"
           THEN ret = Addressed(call.tree, call.comps)
           ELSE ret.err = Panic(91)

\* the same for closed paths whose quoted keys are not made of digits only
C18_SubtreeNamed ==
    (Returned("truncate_tree") /\ call.shape = "closed"
     /\ Addressed(call.tree, call.comps).err = OK /\ Named(call.comps))
        => ret = Addressed(call.tree, call.comps)

\* a path cut before its last closing bracket
C18_Cut ==
    (Returned("truncate_tree") /\ call.shape = "cut"
     /\ Addressed(call.tree, Closed(call.comps, call.shape)).err = OK
     /\ Named(call.comps))
        => ret.err = Panic(91)

\* a path with one more bracket opened at its end is taken as if closed
C18_Open ==
    (Returned("truncate_tree") /\ call.shape = "open"
     /\ Addressed(call.tree, call.comps).err = OK /\ Named(call.comps))
        => ret = Addressed(call.tree, call.comps)

\* the configuration file the call resolves to: the one given, or the
\* nearest one from the current directory upwards, or none
Nearest(cfgs) ==
    {i \in 1..Len(cfgs) : cfgs[i].kind # "absent"}

Resolved ==
    IF call.configloc.given THEN call.configloc.file
    ELSE IF Nearest(call.cfgs) = {} THEN NoCfg
    ELSE call.cfgs[Least(Nearest(call.cfgs))]

\* the text occurs somewhere in the name
Occurs(text, name) ==
    \E i \in 1..(Len(name) + 1) :
        \E j \in 0..Len(name) : SubSeq(name, i, j) = text

\* the rules of the resolved file that apply to the target
Applying ==
    {j \in 1..Len(Resolved.rules)
        : \/ ~Resolved.rules[j].has_regex
          \/ Occurs(Resolved.rules[j].filename_regex, call.filename.base)}

\* the call is about a target with a base name, and the search found no
\* file or the resolved file is a YAML mapping
RulesConsulted ==
    /\ Returned("find_config_for_file")
    /\ ~call.filename.none /\ call.filename.base # <<>>
    /\ \/ Resolved.kind = "doc"
       \/ ~call.configloc.given /\ Resolved.kind = "absent"

\* C19: creation-rule matching.  find_config_for_file returns the first
\* rule, in list order, that has no filename_regex or whose regex is found
\* in the target's base name, never a later one; when no rule applies, or no
\* configuration file or no creation_rules is found, it returns no defaults.
C19_FirstRule ==
    RulesConsulted =>
        ret = IF Applying = {} THEN NoDefaults
              ELSE Found(Resolved.rules[Least(Applying)])

\* the second rule is returned, its regex found after the start of the name
C19_Witness ==
    /\ RulesConsulted
    /\ Applying # {} /\ Least(Applying) = 2
    /\ ret.found /\ ret.rule.has_regex
    /\ ~re_match(ret.rule.filename_regex, call.filename.base)

\* the stash key of child j of a node: its mapping key or sequence index
PosKey(node, j) ==
    IF node.t = "map" THEN KeyK(node.keys[j]) ELSE IdxK(j - 1)

\* the stash entry recorded for the position a path leads to, if any
RECURSIVE Recorded(_, _, _)
Recorded(st, node, path) ==
    IF path = <<>> THEN st
    ELSE IF st.ne /\ InStash(st, PosKey(node, path[1]))
    THEN Recorded(StashAt(st, PosKey(node, path[1])), node.items[path[1]],
                  Tail(path))
    ELSE NoStash

\* the edit session wrote the re-encrypted document
Reencrypted == args.mode = "edit" /\ exitcode = 0

\* the leaf at the path was sealed with the IV its position should get
RightIV(leaf, e) ==
    IF e.hasct /\ e.cleartext = leaf.tok.pt
    THEN leaf.tok.iv = e.iv
    ELSE leaf.tok.iv >= FirstIV

\* C20: IV reuse rule.  After an edit, a leaf is sealed with a stashed IV
\* if and only if the stash holds the entry recorded at decryption for the
\* same position and its cleartext bytes equal the leaf's bytes; every other
\* leaf, at a new mapping key or a new sequence element included, is sealed
\* with a fresh IV.
C20_IvReuse ==
    Reencrypted =>
        \A p \in LeafPaths(tree.data) :
            IsToken(NodeAt(tree.data, p).val) =>
                RightIV(NodeAt(tree.data, p).val,
                        Recorded(stash.st, tree.data, p))

\* the same for the leaves that are not elements of a sequence
C20_IvReuseInMaps ==
    Reencrypted =>
        \A p \in LeafPaths(tree.data) :
            (IsToken(NodeAt(tree.data, p).val) /\ Len(p) = 1) =>
                RightIV(NodeAt(tree.data, p).val,
                        Recorded(stash.st, tree.data, p))

\* an unchanged leaf took its stashed IV, next to one that took a fresh IV
C20_Reused ==
    /\ Reencrypted
    /\ \E p \in LeafPaths(tree.data) :
          /\ IsToken(NodeAt(tree.data, p).val)
          /\ Recorded(stash.st, tree.data, p).hasct
          /\ NodeAt(tree.data, p).val.tok.iv < FirstIV
    /\ \E p \in LeafPaths(tree.data) :
          /\ IsToken(NodeAt(tree.data, p).val)
          /\ NodeAt(tree.data, p).val.tok.iv >= FirstIV

\* the leaves of the input tree that hold "", 0 or 0.0
EmptyOrZero(v) == Falsy(v) /\ v.kind \in {"str", "int", "float"}

\* C21: empty and zero scalars.  The encrypt pass returns every leaf that
\* holds "", 0 or 0.0 as it is, the same value of the same kind and never a
\* token, under an unencrypted-suffix key or not.
C21_EmptyAsIs ==
    pc = "encrypted" =>
        \A p \in LeafPaths(orig.data) :
            EmptyOrZero(NodeAt(orig.data, p).val)
                => NodeAt(stored.data, p) = NodeAt(orig.data, p)

\* what the encrypt pass does with them: each comes out as the empty string
C21_EmptyToStr ==
    pc = "encrypted" =>
        \A p \in LeafPaths(orig.data) :
            EmptyOrZero(NodeAt(orig.data, p).val)
                => NodeAt(stored.data, p) = Leaf(StrV(<<>>))

\* the decrypt pass, its MAC check off, ran on a document in which a clear
\* value was written over a leaf or added as a new leaf
ClearLeafRead ==
    /\ pc = "done" /\ ignoreMac
    /\ tamper.kind \in {"set", "setclear", "add"}

\* C22: clear-leaf passthrough.  The decrypt pass returns every leaf whose
\* value is not a token unchanged and without error, whatever its scalar
\* kind and its position in the tree.
C22_ClearPassthrough ==
    ClearLeafRead =>
        /\ res.err = OK
        /\ NodeAt(res.doc.data, tamper.dst) = NodeAt(tree.data, tamper.dst)

\* the same for the clear leaves that are strings or lie under an
\* unencrypted-suffix key
C22_ClearStrPassthrough ==
    (ClearLeafRead
     /\ \/ NodeAt(tree.data, tamper.dst).val.kind = "str"
        \/ UnderSuffix(tree.data, tamper.dst, UNENCRYPTED_SUFFIX))
        => /\ res.err = OK
           /\ NodeAt(res.doc.data, tamper.dst) = NodeAt(tree.data, tamper.dst)

\* a wrapping operation returned: get_key with a new key, or
\* update_master_keys
Wrapped ==
    /\ pc = "returned"
    /\ call.fn \in {"get_key_new", "update_master_keys"}

\* the entries of a list that carry an `enc` keep their place and content
EncKept(old, new) ==
    /\ Len(new) = Len(old)
    /\ \A j \in 1..Len(old) :
          (~old[j].null /\ old[j].enc # NoEnc) => new[j] = old[j]

\* C23: wrap is fill-in-missing.  get_key with a new data key and
\* update_master_keys leave every kms and pgp entry that carries a non-empty
\* `enc` unchanged; only the other entries receive `enc` and `created_at`.
C23_FillInMissing ==
    (Wrapped /\ ret.err = OK) =>
        /\ EncKept(call.tree.sops.kms, ret.tree.sops.kms)
        /\ EncKept(call.tree.sops.pgp, ret.tree.sops.pgp)

NoNull(list) == \A j \in 1..Len(list) : ~list[j].null

\* update_master_keys on lists without null items is fill-in-missing
C23_UpdateFillsIn ==
    (Returned("update_master_keys")
     /\ NoNull(call.tree.sops.kms) /\ NoNull(call.tree.sops.pgp))
        => /\ EncKept(call.tree.sops.kms, ret.tree.sops.kms)
           /\ EncKept(call.tree.sops.pgp, ret.tree.sops.pgp)

\* after get_key with a new data key every entry wraps the new key
C23_NewKeyRewraps ==
    (Returned("get_key_new") /\ ret.err = OK
     /\ NoNull(call.tree.sops.kms) /\ NoNull(call.tree.sops.pgp))
        => /\ \A j \in 1..Len(ret.tree.sops.kms) :
                ret.tree.sops.kms[j].enc
                = Wrap(ret.tree.sops.kms[j].arn, FreshKey)
           /\ \A j \in 1..Len(ret.tree.sops.pgp) :
                ret.tree.sops.pgp[j].enc
                = Wrap(ret.tree.sops.pgp[j].fp, FreshKey)

\* update_master_keys alone, on every list
C23_UpdateKeepsEnc ==
    Returned("update_master_keys") =>
        /\ EncKept(call.tree.sops.kms, ret.tree.sops.kms)
        /\ EncKept(call.tree.sops.pgp, ret.tree.sops.pgp)

\* wrapping the data key under the entry fails
KmsFails(entry, e) == encrypt_key_with_kms("K1", entry, e.kms_ok).none
PgpFails(entry, e) == encrypt_key_with_pgp("K1", entry, e.pgp_ok).none

\* an entry without `enc` whose wrap fails is kept as it was, and every
\* other entry is kept or wrapped
KmsPerEntry(old, new, e) ==
    /\ Len(new) = Len(old)
    /\ \A j \in 1..Len(old) :
          ~old[j].null =>
              IF old[j].enc = NoEnc /\ KmsFails(old[j], e)
              THEN new[j] = old[j]
              ELSE ~new[j].null /\ new[j].arn = old[j].arn
                   /\ new[j].enc # NoEnc
PgpPerEntry(old, new, e) ==
    /\ Len(new) = Len(old)
    /\ \A j \in 1..Len(old) :
          ~old[j].null =>
              IF old[j].enc = NoEnc /\ PgpFails(old[j], e)
              THEN new[j] = old[j]
              ELSE ~new[j].null /\ new[j].fp = old[j].fp
                   /\ new[j].enc # NoEnc

\* some entry without `enc` cannot be wrapped
SomeWrapFails ==
    \/ \E j \in 1..Len(call.tree.sops.kms) :
          /\ ~call.tree.sops.kms[j].null
          /\ call.tree.sops.kms[j].enc = NoEnc
          /\ KmsFails(call.tree.sops.kms[j], call.e)
    \/ \E j \in 1..Len(call.tree.sops.pgp) :
          /\ ~call.tree.sops.pgp[j].null
          /\ call.tree.sops.pgp[j].enc = NoEnc
          /\ PgpFails(call.tree.sops.pgp[j], call.e)

\* C24: wrap failure is per-entry.  When wrapping the data key fails for an
\* entry, in get_key with a new key and in update_master_keys, the entry
\* stays in its list with its arn or fp and without `enc`, the other entries
\* are still processed, and the process does not end because of it.
C24_PerEntryFailure ==
    (Wrapped /\ SomeWrapFails) =>
        /\ ret.err = OK
        /\ KmsPerEntry(call.tree.sops.kms, ret.tree.sops.kms, call.e)
        /\ PgpPerEntry(call.tree.sops.pgp, ret.tree.sops.pgp, call.e)

\* in get_key with a new key, a failing entry ends the process
C24_NewKeyFatal ==
    (Returned("get_key_new") /\ SomeWrapFails) => ret.err # OK

\* in update_master_keys on lists without null items, the process goes on
\* and a failing entry is replaced by a null item
C24_UpdateDropsEntry ==
    (Returned("update_master_keys")
     /\ NoNull(call.tree.sops.kms) /\ NoNull(call.tree.sops.pgp))
        => /\ ret.err = OK
           /\ \A j \in 1..Len(call.tree.sops.kms) :
                (call.tree.sops.kms[j].enc = NoEnc
                 /\ KmsFails(call.tree.sops.kms[j], call.e))
                    => ret.tree.sops.kms[j].null
           /\ \A j \in 1..Len(call.tree.sops.pgp) :
                (call.tree.sops.pgp[j].enc = NoEnc
                 /\ PgpFails(call.tree.sops.pgp[j], call.e))
                    => ret.tree.sops.pgp[j].null

\* a rotate invocation ended with exit code 0
Rotated == args.mode = "rotate" /\ exitcode = 0

\* every entry of the written document that has an `enc` wraps the new key
RewrappedAll ==
    /\ \A j \in 1..Len(target.content.doc.sops.kms) :
          LET entry == target.content.doc.sops.kms[j]
          IN  (~entry.null /\ entry.enc # NoEnc)
                  => entry.enc = Wrap(entry.arn, FreshKey)
    /\ \A j \in 1..Len(target.content.doc.sops.pgp) :
          LET entry == target.content.doc.sops.pgp[j]
          IN  (~entry.null /\ entry.enc # NoEnc)
                  => entry.enc = Wrap(entry.fp, FreshKey)

\* every token of the written document and its mac are under the new key
ReencryptedAll ==
    /\ \A p \in LeafPaths(target.content.doc.data) :
          IsToken(NodeAt(target.content.doc.data, p).val)
              => NodeAt(target.content.doc.data, p).val.tok.k = FreshKey
    /\ IsToken(target.content.doc.sops.mac)
    /\ target.content.doc.sops.mac.tok.k = FreshKey

\* the written document decrypts under the new key to what the input
\* document decrypts to under the key it was found with
SameValues ==
    LET new == walk_and_decrypt_root(target.content.doc, FreshKey, NoStash,
                                     FALSE, target.content.doc.sops.version,
                                     UNENCRYPTED_SUFFIX)
        old == walk_and_decrypt_root(stored, "K1", NoStash, TRUE,
                                     INPUT_VERSION, UNENCRYPTED_SUFFIX)
    IN  new.err = OK /\ new.doc.data = old.doc.data

\* C25: rotation.  After a rotate invocation that exits 0, every kms and pgp
\* entry of the written document that has an `enc` wraps the new data key,
\* every encrypted leaf and the mac are under the new key, and the written
\* document decrypts with the new key to the leaf values the input document
\* decrypts to with the old key.
C25_Rotation ==
    Rotated => (RewrappedAll /\ ReencryptedAll /\ SameValues)

\* the key material and the tokens alone
C25_Rekeyed ==
    Rotated => (RewrappedAll /\ ReencryptedAll)

\* all three for the input documents that hold no token of a zero value
C25_RotationOfNonZero ==
    (Rotated /\ stored # ZeroDoc)
        => (RewrappedAll /\ ReencryptedAll /\ SameValues)

\* a rotate invocation that added a master key wrote a document
C25_Rotated ==
    /\ Rotated /\ args.add_kms # <<>>
    /\ Len(target.content.doc.sops.kms) = 2
    /\ \A j \in 1..2 : target.content.doc.sops.kms[j].enc # NoEnc

\* the tree has a kms entry with an arn or a pgp entry with a fingerprint
HasMasterKey(doc) ==
    \/ \E j \in 1..Len(doc.sops.kms) :
          ~doc.sops.kms[j].null /\ doc.sops.kms[j].arn # ""
    \/ \E j \in 1..Len(doc.sops.pgp) :
          ~doc.sops.pgp[j].null /\ doc.sops.pgp[j].fp # ""

AtPrompt == pc \in {"prompt_syntax", "prompt_keys"}

\* C26: edit-loop guard.  The edit workflow goes past the edit loop only
\* when the temp file left by the last editor run parses and the tree
\* reloaded from it has a kms entry with an arn or a pgp entry with a
\* fingerprint; a prompt is reached only after a syntax failure or a missing
\* master key, and from a prompt the editor is launched again on the same
\* temp file, or ctrl+c removes the temp file and ends the process with
\* code 85 without writing the target (a prompt that meets the end of its
\* input ends the process with an uncaught EOFError).
C26_EditLoopGuard ==
    /\ [](pc = "finalize"
            => (tmpfile.content.kind = "doc" /\ HasMasterKey(tree)))
    /\ [](pc = "prompt_syntax" => tmpfile.content.kind = "invalid")
    /\ [](pc = "prompt_keys" => ~HasMasterKey(tree))
    /\ [][AtPrompt =>
            \/ pc' = "editor" /\ tmpfile' = tmpfile /\ target' = target
            \/ /\ pc' = "exit" /\ exitcode' = 85
               /\ ~tmpfile'.exists /\ target' = target
            \/ pc' = "exit" /\ exitcode' = 1 /\ target' = target]_vars

\* the loop was left after a second editor run, the first one having led
\* to a prompt
C26_Witness ==
    pc = "finalize" /\ edits = 2 /\ HasMasterKey(tree)

\* dotted-numeric ordering: A is the newer of the two
DottedNewer(A, B) ==
    IF Differ(A, B) # {} THEN A[Least(Differ(A, B))] > B[Least(Differ(A, B))]
    ELSE Len(A) > Len(B)

\* C27: the version never moves backwards.  After update_master_keys the
\* stored `sops.version` is the newer, under dotted-numeric ordering, of the
\* version stored before and the version of the running tool.
C27_VersionForward ==
    (Returned("update_master_keys") /\ call.tree.sops.hasversion) =>
        ret.tree.sops.version
        = IF DottedNewer(VERSION, call.tree.sops.version) THEN VERSION
          ELSE call.tree.sops.version

\* what the code does: it takes the answer of A_is_newer_than_B
C27_VersionByComparator ==
    (Returned("update_master_keys") /\ call.tree.sops.hasversion) =>
        ret.tree.sops.version
        = IF A_is_newer_than_B(VERSION, call.tree.sops.version) THEN VERSION
          ELSE call.tree.sops.version

\* edit mode without --show_master_keys
HiddenEdit == args.mode = "edit" /\ ~args.show_master_keys

\* the master-key entries the written document gets from the stashed
\* `sops` branch and the --add and --rm flags, whatever the data is
FromStash ==
    settle([data |-> Map(<<>>, <<>>), sops |-> stash.sops], args, key, env,
           UNENCRYPTED_SUFFIX).sops

\* C28: hidden metadata.  In edit mode without --show_master_keys the temp
\* file handed to the editor has no `sops` branch, the tree that goes to
\* finalization carries the `sops` branch stashed before editing whatever
\* the editor wrote, and the master-key entries of the written document do
\* not depend on the user's edits.
C28_HiddenMetadata ==
    HiddenEdit =>
        /\ (pc = "editor" /\ edits = 0)
              => (tmpfile.exists /\ tmpfile.content.doc.sops.absent)
        /\ pc = "finalize" => tree.sops = stash.sops
        /\ exitcode = 0
              => /\ target.content.doc.sops.kms = FromStash.kms
                 /\ target.content.doc.sops.pgp = FromStash.pgp

\* the user typed a `sops` branch of their own and the tree that goes to
\* finalization carries the stashed one
C28_Witness ==
    /\ HiddenEdit /\ pc = "finalize"
    /\ tmpfile.content.doc.sops = UserSops
    /\ tree.sops = stash.sops /\ tree.sops # UserSops

\* a document was written to the target path by edit mode or rotate mode
WrittenByEditOrRotate == args.mode \in {"edit", "rotate"} /\ exitcode = 0

\* an entry a later run can unwrap the data key from
UsableKms(entry) == ~entry.null /\ entry.arn # "" /\ entry.enc # NoEnc
UsablePgp(entry) == ~entry.null /\ entry.fp # "" /\ entry.enc # NoEnc

Decryptable(doc) ==
    \/ \E j \in 1..Len(doc.sops.kms) : UsableKms(doc.sops.kms[j])
    \/ \E j \in 1..Len(doc.sops.pgp) : UsablePgp(doc.sops.pgp[j])

\* no null entry and no entry without an identifier in either list
NoEmptyEntry(doc) ==
    /\ \A j \in 1..Len(doc.sops.kms) :
          ~doc.sops.kms[j].null /\ doc.sops.kms[j].arn # ""
    /\ \A j \in 1..Len(doc.sops.pgp) :
          ~doc.sops.pgp[j].null /\ doc.sops.pgp[j].fp # ""

\* C29: a written document stays decryptable.  Every document written to
\* the target path by edit mode or rotate mode, after the --add and --rm
\* flags and update_master_keys, has a kms entry with an arn and an enc or
\* a pgp entry with a fingerprint and an enc, and has no null or empty
\* entry in either list.
C29_StaysDecryptable ==
    WrittenByEditOrRotate
        => Decryptable(target.content.doc) /\ NoEmptyEntry(target.content.doc)

\* the first half alone
C29_HasUsableKey == WrittenByEditOrRotate => Decryptable(target.content.doc)

\* the second half alone
C29_NoEmptyEntry == WrittenByEditOrRotate => NoEmptyEntry(target.content.doc)

\* without --rm flags and with every wrap succeeding the written document
\* has a usable entry
C29_UsableWhenWrapsSucceed ==
    (WrittenByEditOrRotate /\ args.rm_kms = <<>> /\ args.rm_pgp = <<>>
     /\ env.kms_ok /\ env.pgp_ok)
        => Decryptable(target.content.doc)

\* a document was written by edit mode or rotate mode
C29_Written == WrittenByEditOrRotate /\ Decryptable(target.content.doc)

\* an encrypt pass wrote a document
EncryptPassWrote == args.mode \in {"encrypt", "edit", "rotate"} /\ exitcode = 0

\* the document it wrote
WrittenDoc ==
    IF args.mode = "encrypt" /\ ~args.in_place THEN stdout.content.doc
    ELSE target.content.doc

\* the format version a later run reads from a document
VersionRead(doc) == IF doc.sops.hasversion THEN doc.sops.version ELSE VERSION

\* the decrypt pass under that version takes the path for the AAD and
\* requires the type field, as the encrypt pass writes them
CurrentFormat(ver) ==
    A_is_newer_than_B(ver, <<0, 9>>) /\ A_is_newer_than_B(ver, <<0, 8>>)

\* the decrypt pass of a later run with the same data key
NextDecrypt(doc) ==
    walk_and_decrypt_root(doc, key, NoStash, FALSE, VersionRead(doc),
                          UNENCRYPTED_SUFFIX)

\* the stored version of the input document
InputOlderThan08 == stored.sops.hasversion /\ stored.sops.version = <<0, 7>>
InputOf09 == stored.sops.hasversion /\ stored.sops.version = <<0, 9>>

\* C30: format-version consistency.  Every document written by an encrypt
\* pass (encrypt mode, edit mode, rotate mode), whatever the stored version
\* of the input document, carries a stored version under which the decrypt
\* pass selects the path AAD and the typed token format the encrypt pass
\* used, so that the next decrypt of it with the same key succeeds.
C30_FormatVersion ==
    EncryptPassWrote
        => /\ CurrentFormat(VersionRead(WrittenDoc))
           /\ NextDecrypt(WrittenDoc).err = OK

\* the version half alone
C30_VersionIsCurrent ==
    EncryptPassWrote => CurrentFormat(VersionRead(WrittenDoc))

\* edit mode and rotate mode write a version of the current format, and
\* the next decrypt succeeds
C30_SettledVersion ==
    (EncryptPassWrote /\ args.mode \in {"edit", "rotate"})
        => /\ CurrentFormat(VersionRead(WrittenDoc))
           /\ NextDecrypt(WrittenDoc).err = OK

\* so does encrypt mode on an input of the current version
C30_EncryptOfCurrent ==
    (EncryptPassWrote /\ VersionRead(stored) = VERSION)
        => /\ CurrentFormat(VersionRead(WrittenDoc))
           /\ NextDecrypt(WrittenDoc).err = OK

\* encrypt mode writes the stored version of its input
C30_EncryptKeepsVersion ==
    (EncryptPassWrote /\ args.mode = "encrypt" /\ stored.sops.hasversion)
        => VersionRead(WrittenDoc) = stored.sops.version

\* rotate mode wrote a document whose input was of version 0.9
C30_RotatedOld ==
    /\ EncryptPassWrote /\ args.mode = "rotate" /\ InputOf09
    /\ VersionRead(WrittenDoc) = VERSION
    /\ NextDecrypt(WrittenDoc).err = OK

====
